---- MODULE Spec2Model ----
(***************************************************************************)
(* Model of the list handlers of beepee (src/src/main.rs): get_index with  *)
(* its day bucketing, and get_mass, get_temperature and get_sugar, each    *)
(* with the running max/min fold and the guarded aggregate calls.          *)
(*                                                                         *)
(* An Option<T> is a sequence of length at most one: << >> is None and     *)
(* <<x>> is Some(x).  A String is the sequence of its ASCII codes.         *)
(***************************************************************************)
EXTENDS Integers, Sequences, FiniteSets, TLC

VARIABLES
    CONFIG,                 \* the process-wide configuration behind its RwLock
    handler,                \* which list handler serves the request
    pc,                     \* position of the handler
    db_rows,                \* the rows the SELECT returns
    recent_measurements,
    measurements_with_spo2,
    hours,                  \* the local copy of CONFIG.hours, an Option until read
    day_to_measurements,    \* BTreeMap<String, DailyBloodPressureMeasurements>
    max_measurement,
    min_measurement,
    next_index,             \* position of the for loop in recent_measurements
    days_and_measurements,
    context,                \* the template context
    previous,               \* what the handler's earlier call read and handed out
    req_kv,                 \* the form of a POST request
    token,                  \* the AuthToken the request came with
    overflow_checks,        \* whether the build panics on integer overflow
    new_measurement,        \* what get_*_measurement_from_form returned, once called
    response,               \* the response, once written
    inserted,               \* the measurements handed to the database
    request                 \* the request handle_request was called with

vars == << CONFIG, handler, pc, db_rows, recent_measurements, measurements_with_spo2,
           hours, day_to_measurements, max_measurement, min_measurement, next_index,
           days_and_measurements, context, previous,
           req_kv, token, overflow_checks, new_measurement, response, inserted,
           request >>

\* The locals of the list handlers and the variables of the write path.
read_vars == << db_rows, recent_measurements, measurements_with_spo2, hours,
               day_to_measurements, max_measurement, min_measurement, next_index,
               days_and_measurements, context, previous >>

write_vars == << req_kv, token, overflow_checks, new_measurement, response, inserted,
                request >>

-----------------------------------------------------------------------------
(* Bounds of the model. *)

MaxLen == 3

\* The longest table the model serves twice.
MaxRerunLen == 2

-----------------------------------------------------------------------------
(* Option helpers. *)

None == << >>

Some(x) == << x >>

is_some(o) == Len(o) = 1

is_none(o) == Len(o) = 0

-----------------------------------------------------------------------------
(* Calendar dates (chrono::NaiveDate) as records [y, m, d]. *)

IsLeapYear(y) == (y % 4 = 0 /\ y % 100 # 0) \/ y % 400 = 0

DaysInMonth(y, m) ==
    IF m = 2 THEN (IF IsLeapYear(y) THEN 29 ELSE 28)
    ELSE IF m \in {4, 6, 9, 11} THEN 30 ELSE 31

\* NaiveDate::pred: the previous calendar date.
pred(day) ==
    IF day.d > 1 THEN [day EXCEPT !.d = day.d - 1]
    ELSE IF day.m > 1 THEN [y |-> day.y, m |-> day.m - 1, d |-> DaysInMonth(day.y, day.m - 1)]
    ELSE [y |-> day.y - 1, m |-> 12, d |-> 31]

\* The ASCII code of a decimal digit.
Digit(n) == 48 + n

\* day.format("%Y-%m-%d").to_string(), for years 0..9999.
format_date(day) ==
    << Digit(day.y \div 1000), Digit((day.y \div 100) % 10), Digit((day.y \div 10) % 10),
       Digit(day.y % 10), 45,
       Digit(day.m \div 10), Digit(day.m % 10), 45,
       Digit(day.d \div 10), Digit(day.d % 10) >>

\* Ord for String: lexicographic on the bytes.
RECURSIVE str_less(_, _)
str_less(a, b) ==
    IF Len(b) = 0 THEN FALSE
    ELSE IF Len(a) = 0 THEN TRUE
    ELSE IF Head(a) # Head(b) THEN Head(a) < Head(b)
    ELSE str_less(Tail(a), Tail(b))

\* Ord for DateTime<Local>, at the resolution of the model (date and hour).
timestamp_le(a, b) ==
    LET ka == << a.date.y, a.date.m, a.date.d, a.hour >>
        kb == << b.date.y, b.date.m, b.date.d, b.hour >>
    IN  ~ str_less(kb, ka)

-----------------------------------------------------------------------------
(* num_rational::Rational32 as a pair << numer, denom >> in lowest terms    *)
(* with a positive denominator.                                            *)

Abs(n) == IF n < 0 THEN -n ELSE n

RECURSIVE Gcd(_, _)
Gcd(a, b) == IF b = 0 THEN a ELSE Gcd(b, a % b)

\* Rational32::new(n, d), d # 0.
r_new(n, d) ==
    LET g == Gcd(Abs(n), Abs(d))
        s == IF d < 0 THEN -1 ELSE 1
    IN  << (s * n) \div g, (s * d) \div g >>

r_mul(a, b) == r_new(a[1] * b[1], a[2] * b[2])

r_div(a, b) == r_new(a[1] * b[2], a[2] * b[1])

r_add(a, b) == r_new(a[1] * b[2] + b[1] * a[2], a[2] * b[2])

r_lt(a, b) == a[1] * b[2] < b[1] * a[2]

-----------------------------------------------------------------------------
(* Sequence helpers (Vec). *)

RECURSIVE reverse(_)
reverse(s) == IF Len(s) = 0 THEN << >> ELSE Append(reverse(Tail(s)), Head(s))

\* Insert m behind every element whose timestamp is not later: a stable sort step.
RECURSIVE insert_by_timestamp(_, _)
insert_by_timestamp(s, m) ==
    IF Len(s) = 0 THEN << m >>
    ELSE IF timestamp_le(Head(s).timestamp, m.timestamp)
         THEN << Head(s) >> \o insert_by_timestamp(Tail(s), m)
         ELSE << m >> \o s

\* recent_measurements.sort_by_key(|m| m.timestamp): stable, ascending.
RECURSIVE sort_by_timestamp(_)
sort_by_timestamp(s) ==
    IF Len(s) = 0 THEN << >>
    ELSE insert_by_timestamp(sort_by_timestamp(SubSeq(s, 1, Len(s) - 1)), s[Len(s)])

\* .iter().filter(|m| m.spo2_percent.is_some()).map(|m| m.clone()).collect()
RECURSIVE filter_with_spo2(_)
filter_with_spo2(s) ==
    IF Len(s) = 0 THEN << >>
    ELSE IF is_some(Head(s).spo2_percent)
         THEN << Head(s) >> \o filter_with_spo2(Tail(s))
         ELSE filter_with_spo2(Tail(s))

-----------------------------------------------------------------------------
(* The measurement types of model.rs, one per handler:                     *)
(*   index        BloodPressureMeasurement   (i32 fields, spo2 optional)   *)
(*   mass         BodyMassMeasurement        (Rational32, bmi optional)    *)
(*   temperature  BodyTemperatureMeasurement (Rational32)                  *)
(*   sugar        BloodSugarMeasurement      (Rational32)                  *)

Handlers == { "index", "mass", "temperature", "sugar" }

\* The numeric fields that are always present.
required_fields(h) ==
    CASE h = "index"       -> { "systolic_mmhg", "diastolic_mmhg", "pulse_bpm" }
      [] h = "mass"        -> { "mass_kg" }
      [] h = "temperature" -> { "temperature_celsius" }
      [] h = "sugar"       -> { "sugar_mmol_per_l" }

\* The numeric fields that are an Option.
optional_fields(h) ==
    CASE h = "index" -> { "spo2_percent" }
      [] h = "mass"  -> { "bmi" }
      [] OTHER       -> { }

numeric_fields(h) == required_fields(h) \cup optional_fields(h)

\* Ord of a field's value: i32 for blood pressure, Rational32 otherwise.
value_lt(h, a, b) == IF h = "index" THEN a < b ELSE r_lt(a, b)

value_max(h, a, b) == IF value_lt(h, a, b) THEN b ELSE a

value_min(h, a, b) == IF value_lt(h, b, a) THEN b ELSE a

\* The field's value as an exact fraction.
value_ratio(h, v) == IF h = "index" THEN << v, 1 >> ELSE v

\* The maximum of two optional values; an absent value does not take part.
option_max(h, a, b) ==
    IF is_none(a) THEN b
    ELSE IF is_none(b) THEN a
    ELSE Some(value_max(h, a[1], b[1]))

option_min(h, a, b) ==
    IF is_none(a) THEN b
    ELSE IF is_none(b) THEN a
    ELSE Some(value_min(h, a[1], b[1]))

\* self.values_max(other): the field-wise maximum, a composite record.
values_max(h, self, other) ==
    [ f \in DOMAIN self |->
        IF f \in required_fields(h) THEN value_max(h, self[f], other[f])
        ELSE IF f \in optional_fields(h) THEN option_max(h, self[f], other[f])
        ELSE IF f = "id" THEN -1
        ELSE self[f] ]

\* self.values_min(other): the field-wise minimum, a composite record.
values_min(h, self, other) ==
    [ f \in DOMAIN self |->
        IF f \in required_fields(h) THEN value_min(h, self[f], other[f])
        ELSE IF f \in optional_fields(h) THEN option_min(h, self[f], other[f])
        ELSE IF f = "id" THEN -1
        ELSE self[f] ]

\* The values of field f that are present, in the order of the sequence.
RECURSIVE present_values(_, _, _)
present_values(h, ms, f) ==
    IF Len(ms) = 0 THEN << >>
    ELSE LET rest == present_values(h, Tail(ms), f)
         IN  IF f \in optional_fields(h)
             THEN Head(ms)[f] \o rest
             ELSE << Head(ms)[f] >> \o rest

RECURSIVE ratio_sum(_, _)
ratio_sum(h, vs) ==
    IF Len(vs) = 0 THEN << 0, 1 >>
    ELSE r_add(value_ratio(h, Head(vs)), ratio_sum(h, Tail(vs)))

\* The result of an aggregate function on an empty sequence: not defined.
Undefined == [ undefined |-> TRUE ]

\* T::average(measurements): per field, the exact quotient of the sum of the
\* present values by their number; an optional field nobody has stays absent.
average(h, ms) ==
    IF Len(ms) = 0 THEN Undefined
    ELSE [ f \in numeric_fields(h) |->
            LET vs == present_values(h, ms, f)
                q  == r_div(ratio_sum(h, vs), << Len(vs), 1 >>)
            IN  IF f \in optional_fields(h)
                THEN (IF Len(vs) = 0 THEN None ELSE Some(q))
                ELSE q ]

RECURSIVE insert_value(_, _, _)
insert_value(h, s, v) ==
    IF Len(s) = 0 THEN << v >>
    ELSE IF value_lt(h, v, Head(s)) THEN << v >> \o s
    ELSE << Head(s) >> \o insert_value(h, Tail(s), v)

\* sort(): ascending.
RECURSIVE sort_values(_, _)
sort_values(h, vs) ==
    IF Len(vs) = 0 THEN << >>
    ELSE insert_value(h, sort_values(h, Tail(vs)), Head(vs))

\* The rank quasi_n_tile selects among count sorted values (zero-based).
n_tile_index(count, n, d) == ((count - 1) * n) \div d

\* Indexing a Vec out of its range panics.
Panic == [ panic |-> TRUE ]

\* T::quasi_n_tile(measurements, n, d): per field, the element of the sorted
\* present values at the rank n_tile_index.
quasi_n_tile(h, ms, n, d) ==
    IF Len(ms) = 0 THEN Undefined
    ELSE LET idx(f) == n_tile_index(Len(present_values(h, ms, f)), n, d)
             bad == { f \in numeric_fields(h) :
                        /\ Len(present_values(h, ms, f)) > 0
                        /\ idx(f) >= Len(present_values(h, ms, f)) }
         IN  IF bad # { } THEN Panic
             ELSE [ f \in numeric_fields(h) |->
                     LET vs == sort_values(h, present_values(h, ms, f))
                     IN  IF f \in optional_fields(h)
                         THEN (IF Len(vs) = 0 THEN None ELSE Some(vs[idx(f) + 1]))
                         ELSE vs[idx(f) + 1] ]

\* DailyBloodPressureMeasurements::new_empty(date_string)
new_empty(date_string) ==
    [ date_string |-> date_string, morning |-> None, midday |-> None,
      evening |-> None, other |-> << >> ]

-----------------------------------------------------------------------------
(* The bucketing of get_index. *)

\* attributed_day with the rollover tested against the wrong cut point.
attributed_day_until_morning_end(measurement, h) ==
    LET day == measurement.timestamp.date
    IN  IF measurement.timestamp.hour < h.morning_end THEN pred(day) ELSE day

\* attributed_day without the rollover.
attributed_day_same_day(measurement, h) == measurement.timestamp.date

\* The calendar day a measurement is counted for.
attributed_day(measurement, h) ==
    LET day == measurement.timestamp.date
    IN  IF measurement.timestamp.hour < h.morning_start THEN pred(day) ELSE day

\* assign_slot with the midday window tested before the morning window.
assign_slot_midday_first(entry, measurement, h) ==
    LET this_hour == measurement.timestamp.hour
    IN  IF this_hour < h.morning_start /\ is_none(entry.evening)
        THEN [entry EXCEPT !.evening = Some(measurement)]
        ELSE IF this_hour >= h.midday_start /\ this_hour < h.midday_end /\ is_none(entry.midday)
        THEN [entry EXCEPT !.midday = Some(measurement)]
        ELSE IF this_hour >= h.morning_start /\ this_hour < h.morning_end /\ is_none(entry.morning)
        THEN [entry EXCEPT !.morning = Some(measurement)]
        ELSE IF this_hour >= h.evening_start /\ is_none(entry.evening)
        THEN [entry EXCEPT !.evening = Some(measurement)]
        ELSE [entry EXCEPT !.other = Append(entry.other, measurement)]

\* assign_slot without the tests that a slot is still empty.
assign_slot_overwriting(entry, measurement, h) ==
    LET this_hour == measurement.timestamp.hour
    IN  IF this_hour < h.morning_start
        THEN [entry EXCEPT !.evening = Some(measurement)]
        ELSE IF this_hour >= h.morning_start /\ this_hour < h.morning_end
        THEN [entry EXCEPT !.morning = Some(measurement)]
        ELSE IF this_hour >= h.midday_start /\ this_hour < h.midday_end
        THEN [entry EXCEPT !.midday = Some(measurement)]
        ELSE IF this_hour >= h.evening_start
        THEN [entry EXCEPT !.evening = Some(measurement)]
        ELSE [entry EXCEPT !.other = Append(entry.other, measurement)]

\* assign_slot without its last else: a measurement no rule takes is left out.
assign_slot_without_other(entry, measurement, h) ==
    LET this_hour == measurement.timestamp.hour
    IN  IF this_hour < h.morning_start /\ is_none(entry.evening)
        THEN [entry EXCEPT !.evening = Some(measurement)]
        ELSE IF this_hour >= h.morning_start /\ this_hour < h.morning_end /\ is_none(entry.morning)
        THEN [entry EXCEPT !.morning = Some(measurement)]
        ELSE IF this_hour >= h.midday_start /\ this_hour < h.midday_end /\ is_none(entry.midday)
        THEN [entry EXCEPT !.midday = Some(measurement)]
        ELSE IF this_hour >= h.evening_start /\ is_none(entry.evening)
        THEN [entry EXCEPT !.evening = Some(measurement)]
        ELSE entry

\* The if/else chain that puts a measurement into its entry.
assign_slot(entry, measurement, h) ==
    LET this_hour == measurement.timestamp.hour
    IN  IF this_hour < h.morning_start /\ is_none(entry.evening)
        THEN [entry EXCEPT !.evening = Some(measurement)]
        ELSE IF this_hour >= h.morning_start /\ this_hour < h.morning_end /\ is_none(entry.morning)
        THEN [entry EXCEPT !.morning = Some(measurement)]
        ELSE IF this_hour >= h.midday_start /\ this_hour < h.midday_end /\ is_none(entry.midday)
        THEN [entry EXCEPT !.midday = Some(measurement)]
        ELSE IF this_hour >= h.evening_start /\ is_none(entry.evening)
        THEN [entry EXCEPT !.evening = Some(measurement)]
        ELSE [entry EXCEPT !.other = Append(entry.other, measurement)]

\* One iteration's work on day_to_measurements: entry(..).or_insert_with(..), then the chain.
bucket_measurement(dtm, measurement, h) ==
    LET date_string == format_date(attributed_day(measurement, h))
        entry == IF date_string \in DOMAIN dtm THEN dtm[date_string]
                 ELSE new_empty(date_string)
    IN  [ k \in DOMAIN dtm \cup { date_string } |->
            IF k = date_string THEN assign_slot(entry, measurement, h) ELSE dtm[k] ]

\* The loop body reading the shared configuration anew in every iteration.
loop_hours_reread == CONFIG.hours

\* The hours the loop body tests against: the local `hours`, read before the loop.
loop_hours == hours[1]

\* BTreeMap::values(): the values in ascending order of their keys.
RECURSIVE values_ascending(_, _)
values_ascending(dtm, keys) ==
    IF keys = { } THEN << >>
    ELSE LET least == CHOOSE k \in keys : \A o \in keys \ { k } : str_less(k, o)
         IN  << dtm[least] >> \o values_ascending(dtm, keys \ { least })

\* collect_days without rev(): oldest day first.
collect_days_ascending(dtm) == values_ascending(dtm, DOMAIN dtm)

\* day_to_measurements.values().rev().map(|v| v.clone()).collect()
collect_days(dtm) == reverse(values_ascending(dtm, DOMAIN dtm))

-----------------------------------------------------------------------------
(* The running composites and the guarded aggregates of the list handlers. *)

\* fold_max combining the new measurement with itself instead of the running composite.
fold_max_forgetting(h, acc, measurement) ==
    IF is_some(acc) THEN Some(values_max(h, measurement, measurement))
    ELSE Some(measurement)

\* if let Some(mm) = &mut max_measurement { *mm = mm.values_max(..) } else { .. = Some(clone) }
fold_max(h, acc, measurement) ==
    IF is_some(acc) THEN Some(values_max(h, acc[1], measurement))
    ELSE Some(measurement)

\* fold_min leaving the running composite as the first measurement made it.
fold_min_keeping_first(h, acc, measurement) ==
    IF is_some(acc) THEN acc
    ELSE Some(measurement)

fold_min(h, acc, measurement) ==
    IF is_some(acc) THEN Some(values_min(h, acc[1], measurement))
    ELSE Some(measurement)

\* The aggregates computed without a guard.
aggregate_guard_missing(h, days, measurements) == TRUE

\* The condition under which the aggregates are computed.
aggregate_guard(h, days, measurements) ==
    IF h = "index" THEN Len(days) > 0 ELSE Len(measurements) > 0

\* The average taken over the measurements with an oxygen saturation only.
avg_measurement_with_spo2(h, measurements) ==
    average(h, IF h = "index" THEN filter_with_spo2(measurements) ELSE measurements)

\* BloodPressureMeasurement::average(&recent_measurements), and its siblings.
avg_measurement(h, measurements) == average(h, measurements)

quasi_q1_measurement(h, measurements) == quasi_n_tile(h, measurements, 1, 4)

quasi_q2_measurement(h, measurements) == quasi_n_tile(h, measurements, 1, 2)

\* The third quartile called with numerator and denominator exchanged.
quasi_q3_measurement_swapped(h, measurements) == quasi_n_tile(h, measurements, 4, 3)

quasi_q3_measurement(h, measurements) == quasi_n_tile(h, measurements, 3, 4)

\* The context before the aggregates are inserted; a key not inserted is None.
base_context(measurements, with_spo2, days) ==
    [ measurements |-> Some(measurements),
      measurements_with_spo2 |-> with_spo2,
      days_and_measurements |-> days,
      max_measurement |-> None, quasi_q3_measurement |-> None,
      avg_measurement |-> None, quasi_q2_measurement |-> None,
      quasi_q1_measurement |-> None, min_measurement |-> None ]

\* The context handed to the template.
build_context(h, measurements, with_spo2, days, max_m, min_m) ==
    LET base == base_context(measurements,
                             IF h = "index" THEN Some(with_spo2) ELSE None,
                             IF h = "index" THEN Some(days) ELSE None)
    IN  IF aggregate_guard(h, days, measurements)
        THEN [ base EXCEPT
                 !.max_measurement = Some(max_m),
                 !.quasi_q3_measurement = Some(quasi_q3_measurement(h, measurements)),
                 !.avg_measurement = Some(avg_measurement(h, measurements)),
                 !.quasi_q2_measurement = Some(quasi_q2_measurement(h, measurements)),
                 !.quasi_q1_measurement = Some(quasi_q1_measurement(h, measurements)),
                 !.min_measurement = Some(min_m) ]
        ELSE base

-----------------------------------------------------------------------------
(* The configurations and the database contents the model draws from. *)

HoursStandard ==
    [ morning_start |-> 6, morning_end |-> 10, midday_start |-> 11,
      midday_end |-> 15, evening_start |-> 18 ]

\* Overlapping morning and midday windows, a midday window that starts before
\* the morning does, and a gap before the evening.
HoursOverlapping ==
    [ morning_start |-> 6, morning_end |-> 13, midday_start |-> 2,
      midday_end |-> 15, evening_start |-> 21 ]

\* The morning starts at midnight; the midday window reaches into the evening.
HoursMidnight ==
    [ morning_start |-> 0, morning_end |-> 10, midday_start |-> 11,
      midday_end |-> 15, evening_start |-> 12 ]

\* A token that may write and one that may only read.
AuthTokens ==
    << [ token |-> "reader", write |-> FALSE ], [ token |-> "writer", write |-> TRUE ] >>

Configs ==
    { [ hours |-> HoursStandard,    height_cm |-> Some(180), auth_tokens |-> AuthTokens ],
      [ hours |-> HoursOverlapping, height_cm |-> None,      auth_tokens |-> AuthTokens ],
      [ hours |-> HoursMidnight,    height_cm |-> Some(180), auth_tokens |-> AuthTokens ] }

Dates ==
    { [ y |-> 2023, m |-> 12, d |-> 31 ],
      [ y |-> 2024, m |-> 1,  d |-> 1 ],
      [ y |-> 2024, m |-> 3,  d |-> 1 ] }

HoursOfDay == { 3, 7, 12, 20 }

Timestamps == [ date : Dates, hour : HoursOfDay ]

BaseTimestamp == [ date |-> [ y |-> 2024, m |-> 1, d |-> 1 ], hour |-> 7 ]

SeqsUpTo(S, n) == UNION { [ 1..k -> S ] : k \in 0..n }

IsTimeOrdered(ts) == \A i \in 1..(Len(ts) - 1) : timestamp_le(ts[i], ts[i + 1])

BloodPressureValues ==
    { [ systolic_mmhg |-> 110, diastolic_mmhg |-> 90, spo2_percent |-> None ],
      [ systolic_mmhg |-> 130, diastolic_mmhg |-> 70, spo2_percent |-> Some(95) ],
      [ systolic_mmhg |-> 130, diastolic_mmhg |-> 70, spo2_percent |-> None ],
      [ systolic_mmhg |-> 110, diastolic_mmhg |-> 70, spo2_percent |-> Some(99) ],
      [ systolic_mmhg |-> 130, diastolic_mmhg |-> 90, spo2_percent |-> Some(99) ],
      [ systolic_mmhg |-> 110, diastolic_mmhg |-> 90, spo2_percent |-> Some(95) ] }

RationalValues(h) ==
    CASE h = "mass"        -> { << 70, 1 >>, << 151, 2 >>, << 80, 1 >> }
      [] h = "temperature" -> { << 73, 2 >>, << 37, 1 >>, << 381, 10 >> }
      [] h = "sugar"       -> { << 5, 1 >>, << 11, 2 >>, << 7, 1 >> }

\* Blood pressure rows that differ in their timestamps.
TimeRows ==
    { [ i \in 1..Len(ts) |->
          [ id |-> i, timestamp |-> ts[i], systolic_mmhg |-> 120,
            diastolic_mmhg |-> 80, pulse_bpm |-> 60, spo2_percent |-> None ] ] :
      ts \in { t \in SeqsUpTo(Timestamps, MaxLen) : IsTimeOrdered(t) } }

\* Blood pressure rows that differ in their values.
ValueRows ==
    { [ i \in 1..Len(vs) |->
          [ id |-> i, timestamp |-> BaseTimestamp,
            systolic_mmhg |-> vs[i].systolic_mmhg,
            diastolic_mmhg |-> vs[i].diastolic_mmhg,
            pulse_bpm |-> 60, spo2_percent |-> vs[i].spo2_percent ] ] :
      vs \in SeqsUpTo(BloodPressureValues, MaxLen) }

\* The rows of the other three tables: one rational column each.
RationalRows(h) ==
    { [ i \in 1..Len(vs) |->
          IF h = "mass"
          THEN [ id |-> i, timestamp |-> BaseTimestamp, mass_kg |-> vs[i] ]
          ELSE IF h = "temperature"
          THEN [ id |-> i, timestamp |-> BaseTimestamp, location_id |-> 1,
                 temperature_celsius |-> vs[i] ]
          ELSE [ id |-> i, timestamp |-> BaseTimestamp, sugar_mmol_per_l |-> vs[i] ] ] :
      vs \in SeqsUpTo(RationalValues(h), MaxLen) }

\* What SELECT ... ORDER BY "timestamp" can return to a handler.
InputRows(h) == IF h = "index" THEN TimeRows \cup ValueRows ELSE RationalRows(h)

\* get_recent_*_measurements: the rows as measurements; a mass gets its BMI
\* from the height configured at that moment.
fetch_measurements(h, rows, config) ==
    IF h = "mass"
    THEN LET height_m == IF is_some(config.height_cm)
                         THEN Some(r_new(config.height_cm[1], 100)) ELSE None
             square_height_m2 == IF is_some(height_m)
                                 THEN Some(r_mul(height_m[1], height_m[1])) ELSE None
         IN  [ i \in 1..Len(rows) |->
                 [ id |-> rows[i].id, timestamp |-> rows[i].timestamp,
                   mass_kg |-> rows[i].mass_kg,
                   bmi |-> IF is_some(square_height_m2)
                           THEN Some(r_div(rows[i].mass_kg, square_height_m2[1]))
                           ELSE None ] ]
    ELSE rows

\* sort_by_key, and for the three later handlers reverse(): newest first.
order_measurements(h, measurements) ==
    IF h = "index" THEN sort_by_timestamp(measurements)
    ELSE reverse(sort_by_timestamp(measurements))

EmptyMap == [ k \in { } |-> None ]

\* The map of the days left as the handler's last call filled it.
BTreeMap_kept == day_to_measurements

\* let mut day_to_measurements = BTreeMap::new();
BTreeMap_new == EmptyMap

-----------------------------------------------------------------------------
(* Strings the write path takes apart: a String is the sequence of the codes *)
(* of its characters.                                                         *)

Code(c) ==
    CASE c = "0" -> 48 [] c = "1" -> 49 [] c = "2" -> 50 [] c = "3" -> 51
      [] c = "4" -> 52 [] c = "5" -> 53 [] c = "6" -> 54 [] c = "7" -> 55
      [] c = "8" -> 56 [] c = "9" -> 57 [] c = "+" -> 43 [] c = "-" -> 45
      [] c = "." -> 46 [] c = "/" -> 47 [] c = "S" -> 83 [] c = "_" -> 95
      [] c = "a" -> 97 [] c = "b" -> 98 [] c = "c" -> 99
      [] c = "d" -> 100 [] c = "e" -> 101 [] c = "g" -> 103 [] c = "i" -> 105
      [] c = "j" -> 106 [] c = "l" -> 108 [] c = "m" -> 109 [] c = "o" -> 111
      [] c = "p" -> 112 [] c = "r" -> 114 [] c = "s" -> 115 [] c = "t" -> 116
      [] c = "u" -> 117 [] c = "x" -> 120 [] c = "y" -> 121

Text(chars) == [ i \in 1..Len(chars) |-> Code(chars[i]) ]

is_digit(c) == c >= 48 /\ c <= 57
is_sign(c) == c = 43 \/ c = 45
is_point(c) == c = 46

-----------------------------------------------------------------------------
(* i32 arithmetic. A product that leaves the range panics in a build with    *)
(* overflow checks and wraps modulo 2^32 in one without. Every intermediate  *)
(* value below stays inside the range itself.                                 *)

\* i32::MAX
MaxI32 == 2147483647

MinI32 == -MaxI32 - 1

\* The result of an operation that may panic.
Panicked == [ ok |-> FALSE, value |-> << >> ]
Returned(v) == [ ok |-> TRUE, value |-> << v >> ]

wrapping_neg(x) == IF x = MinI32 THEN MinI32 ELSE -x

wrapping_add(x, y) ==
    IF x >= 0 /\ y > MaxI32 - x THEN (x - MaxI32 - 1) + (y - MaxI32 - 1)
    ELSE IF x < 0 /\ y < MinI32 - x THEN (x + MaxI32 + 1) + (y + MaxI32 + 1)
    ELSE x + y

\* a * b modulo 2^32, by doubling a along the bits of b.
RECURSIVE wrapping_mul_by(_, _)
wrapping_mul_by(a, b) ==
    IF b = 0 THEN 0
    ELSE IF b < 0 THEN wrapping_neg(wrapping_add(wrapping_mul_by(a, -(b + 1)), a))
    ELSE LET half == wrapping_mul_by(a, b \div 2)
             twice == wrapping_add(half, half)
         IN  IF b % 2 = 1 THEN wrapping_add(twice, a) ELSE twice

\* a.wrapping_mul(b); the factor of the smaller magnitude steers the doubling.
wrapping_mul(a, b) ==
    IF a # MinI32 /\ b # MinI32 /\ Abs(a) < Abs(b) THEN wrapping_mul_by(b, a)
    ELSE wrapping_mul_by(a, b)

\* The product is an i32. (A product of exactly i32::MIN counts as leaving the
\* range; no value of the model comes near it.)
mul_fits(a, b) == a = 0 \/ b = 0 \/ Abs(a) <= MaxI32 \div Abs(b)

\* a * b
i32_mul(a, b, checks) ==
    IF mul_fits(a, b) THEN Returned(a * b)
    ELSE IF checks THEN Panicked
    ELSE Returned(wrapping_mul(a, b))

\* a / b, which panics on a zero divisor in every build; the divisors of the
\* model divide exactly.
i32_div(a, b) == IF b = 0 THEN Panicked ELSE Returned(a \div b)

-----------------------------------------------------------------------------
(* num_rational::Ratio<i32> as the write path uses it. *)

\* Ratio::new keeping the numerator and the denominator as they come.
Ratio_new_unreduced(numer, denom) ==
    IF denom = 0 THEN Panicked ELSE Returned(<< numer, denom >>)

\* Ratio::new: panics on a zero denominator, reduces otherwise.
Ratio_new(numer, denom) ==
    IF denom = 0 THEN Panicked ELSE Returned(r_new(numer, denom))

\* Ratio::new on two results.
Ratio_of(numer, denom) ==
    IF numer.ok /\ denom.ok THEN Ratio_new(numer.value[1], denom.value[1])
    ELSE Panicked

\* i32 product of two results.
mul_of(x, y, checks) ==
    IF x.ok /\ y.ok THEN i32_mul(x.value[1], y.value[1], checks) ELSE Panicked

\* impl Mul for Ratio: both cross gcds are divided out before multiplying.
Ratio_mul(lhs, rhs, checks) ==
    LET gcd_ad == Gcd(Abs(lhs[1]), Abs(rhs[2]))
        gcd_bc == Gcd(Abs(lhs[2]), Abs(rhs[1]))
    IN  Ratio_of(mul_of(i32_div(lhs[1], gcd_ad), i32_div(rhs[1], gcd_bc), checks),
                 mul_of(i32_div(lhs[2], gcd_bc), i32_div(rhs[2], gcd_ad), checks))

\* impl Div for Ratio.
Ratio_div(lhs, rhs, checks) ==
    LET gcd_ac == Gcd(Abs(lhs[1]), Abs(rhs[1]))
        gcd_bd == Gcd(Abs(lhs[2]), Abs(rhs[2]))
    IN  Ratio_of(mul_of(i32_div(lhs[1], gcd_ac), i32_div(rhs[2], gcd_bd), checks),
                 mul_of(i32_div(lhs[2], gcd_bd), i32_div(rhs[1], gcd_ac), checks))

-----------------------------------------------------------------------------
(* Parsing. *)

\* Result::Ok and Result::Err.
Ok(v) == [ ok |-> TRUE, value |-> v ]
Err(e) == [ ok |-> FALSE, error |-> e ]

\* The digit loop of i32::from_str: the result grows by one digit at a time,
\* downwards for a negative number, and stops at the first character that is no
\* digit or the first step that leaves the range.
RECURSIVE from_str_digits(_, _, _)
from_str_digits(digits, is_positive, result) ==
    IF digits = << >> THEN Ok(result)
    ELSE LET c == Head(digits)
             x == c - 48
         IN  IF ~is_digit(c) THEN Err("InvalidDigit")
             ELSE IF is_positive
             THEN IF result > (MaxI32 - x) \div 10 THEN Err("PosOverflow")
                  ELSE from_str_digits(Tail(digits), is_positive, result * 10 + x)
             ELSE IF -result > (IF x = 0 THEN MaxI32 ELSE MaxI32 - x + 1) \div 10
                  THEN Err("NegOverflow")
                  ELSE from_str_digits(Tail(digits), is_positive, result * 10 - x)

\* string_value.parse::<i32>()
parse_i32(src) ==
    IF src = << >> THEN Err("Empty")
    ELSE IF is_sign(src[1]) /\ Len(src) = 1 THEN Err("InvalidDigit")
    ELSE IF src[1] = 43 THEN from_str_digits(Tail(src), TRUE, 0)
    ELSE IF src[1] = 45 THEN from_str_digits(Tail(src), FALSE, 0)
    ELSE from_str_digits(src, TRUE, 0)

\* string_value.parse::<i64>(): the same grammar; a text the model submits is
\* too short to leave the range of an i64.
RECURSIVE from_str_digits_i64(_, _, _)
from_str_digits_i64(digits, is_positive, result) ==
    IF digits = << >> THEN Ok(result)
    ELSE IF ~is_digit(Head(digits)) THEN Err("InvalidDigit")
    ELSE from_str_digits_i64(Tail(digits), is_positive,
                             IF is_positive THEN result * 10 + (Head(digits) - 48)
                             ELSE result * 10 - (Head(digits) - 48))

parse_i64(src) ==
    IF src = << >> THEN Err("Empty")
    ELSE IF is_sign(src[1]) /\ Len(src) = 1 THEN Err("InvalidDigit")
    ELSE IF src[1] = 43 THEN from_str_digits_i64(Tail(src), TRUE, 0)
    ELSE IF src[1] = 45 THEN from_str_digits_i64(Tail(src), FALSE, 0)
    ELSE from_str_digits_i64(src, TRUE, 0)

\* 10^digits as an i32, or the failure to fit one.
RECURSIVE decimal_scale(_)
decimal_scale(digits) ==
    IF digits = 0 THEN Ok(1)
    ELSE LET smaller == decimal_scale(digits - 1)
         IN  IF ~smaller.ok THEN smaller
             ELSE IF ~mul_fits(smaller.value, 10) THEN Err("MalformedDecimal")
             ELSE Ok(smaller.value * 10)

\* numerism::r32_from_decimal: an optional sign, digits, at most one decimal
\* point among them. All the digits read as one integer make the numerator, ten
\* to the number of digits behind the point the denominator, and Rational32::new
\* reduces the two. A text without any digit, and one whose digits do not fit an
\* i32, is malformed as well.
r32_from_decimal(decimal_str) ==
    IF decimal_str = << >> THEN Err("MalformedDecimal")
    ELSE LET signed == is_sign(decimal_str[1])
             body == IF signed THEN Tail(decimal_str) ELSE decimal_str
             points == { i \in DOMAIN body : is_point(body[i]) }
             digits == SelectSeq(body, is_digit)
         IN  IF \E i \in DOMAIN body : ~is_digit(body[i]) /\ ~is_point(body[i])
             THEN Err("MalformedDecimal")
             ELSE IF Cardinality(points) > 1 \/ digits = << >>
             THEN Err("MalformedDecimal")
             ELSE LET fractional == IF points = { } THEN 0
                                    ELSE Len(body) - (CHOOSE i \in points : TRUE)
                      scale == decimal_scale(fractional)
                      numer == from_str_digits(digits, decimal_str[1] # 45, 0)
                  IN  IF ~scale.ok \/ ~numer.ok THEN Err("MalformedDecimal")
                      ELSE Ok(r_new(numer.value, scale.value))

-----------------------------------------------------------------------------
(* The form helpers of the write path. *)

\* enum ClientError
MissingValue(key) == [ kind |-> "MissingValue", key |-> key ]
FailedToParseIntValue(key, value, e) ==
    [ kind |-> "FailedToParseIntValue", key |-> key, value |-> value, error |-> e ]
FailedToParseRationalValue(key, value, e) ==
    [ kind |-> "FailedToParseRationalValue", key |-> key, value |-> value, error |-> e ]
IntValueZeroOrLess(key, value) ==
    [ kind |-> "IntValueZeroOrLess", key |-> key, value |-> value ]
RationalValueZeroOrLess(key, value) ==
    [ kind |-> "RationalValueZeroOrLess", key |-> key, value |-> value ]
IntValueTooHigh(key, value, max) ==
    [ kind |-> "IntValueTooHigh", key |-> key, value |-> value, max |-> max ]
RationalValueTooLow(key, value, min) ==
    [ kind |-> "RationalValueTooLow", key |-> key, value |-> value, min |-> min ]
ValueIsInvalidOption(key, value, options) ==
    [ kind |-> "ValueIsInvalidOption", key |-> key, value |-> value,
      options |-> options ]

\* The ? operator: the rest of the function runs on the value of an Ok.
Required(found, key) ==
    IF ~found.ok THEN found
    ELSE IF is_none(found.value) THEN Err(MissingValue(key))
    ELSE Ok(found.value[1])

\* get_form_i32_gt0 putting zero in the place of a text it cannot parse.
get_form_i32_gt0_defaulting(kv, key) ==
    IF key \notin DOMAIN kv THEN Ok(None)
    ELSE LET parsed == parse_i32(kv[key])
         IN  IF ~parsed.ok THEN Ok(Some(0))
             ELSE IF parsed.value < 0 THEN Err(IntValueZeroOrLess(key, parsed.value))
             ELSE Ok(Some(parsed.value))

get_form_i32_gt0(kv, key) ==
    IF key \notin DOMAIN kv THEN Ok(None)
    ELSE LET parsed == parse_i32(kv[key])
         IN  IF ~parsed.ok
             THEN Err(FailedToParseIntValue(key, kv[key], parsed.error))
             ELSE IF parsed.value < 0 THEN Err(IntValueZeroOrLess(key, parsed.value))
             ELSE Ok(Some(parsed.value))

get_req_form_i32_gt0(kv, key) == Required(get_form_i32_gt0(kv, key), key)

get_form_i64(kv, key) ==
    IF key \notin DOMAIN kv THEN Ok(None)
    ELSE LET parsed == parse_i64(kv[key])
         IN  IF ~parsed.ok
             THEN Err(FailedToParseIntValue(key, kv[key], parsed.error))
             ELSE Ok(Some(parsed.value))

get_req_form_i64(kv, key) == Required(get_form_i64(kv, key), key)

\* get_form_r32 putting zero in the place of a text it cannot parse.
get_form_r32_defaulting(kv, key) ==
    IF key \notin DOMAIN kv THEN Ok(None)
    ELSE LET parsed == r32_from_decimal(kv[key])
         IN  IF ~parsed.ok THEN Ok(Some(<< 0, 1 >>))
             ELSE Ok(Some(parsed.value))

get_form_r32(kv, key) ==
    IF key \notin DOMAIN kv THEN Ok(None)
    ELSE LET parsed == r32_from_decimal(kv[key])
         IN  IF ~parsed.ok
             THEN Err(FailedToParseRationalValue(key, kv[key], parsed.error))
             ELSE Ok(Some(parsed.value))

get_form_r32_gt0(kv, key) ==
    LET found == get_form_r32(kv, key)
    IN  IF ~found.ok \/ is_none(found.value) THEN found
        ELSE IF r_lt(found.value[1], << 0, 1 >>)
        THEN Err(RationalValueZeroOrLess(key, found.value[1]))
        ELSE found

get_req_form_r32(kv, key) == Required(get_form_r32(kv, key), key)

get_req_form_r32_gt0(kv, key) == Required(get_form_r32_gt0(kv, key), key)

-----------------------------------------------------------------------------
(* The four functions that build a measurement from a form. Each returns the *)
(* measurement, a ClientError, or nothing at all when it panics.              *)

Built(measurement) == [ kind |-> "Ok", measurement |-> measurement ]
Rejected(e) == [ kind |-> "Err", error |-> e ]
Unwound == [ kind |-> "Panic" ]

\* Local::now(); the model has one instant for it.
now == BaseTimestamp

\* The greatest oxygen saturation the form accepts.
max_spo2_percent == 100

get_measurement_from_form(kv) ==
    LET systolic_mmhg == get_req_form_i32_gt0(kv, "systolic_mmhg")
        diastolic_mmhg == get_req_form_i32_gt0(kv, "diastolic_mmhg")
        pulse_bpm == get_req_form_i32_gt0(kv, "pulse_bpm")
        spo2_percent == get_form_i32_gt0(kv, "spo2_percent")
    IN  IF ~systolic_mmhg.ok THEN Rejected(systolic_mmhg.error)
        ELSE IF ~diastolic_mmhg.ok THEN Rejected(diastolic_mmhg.error)
        ELSE IF ~pulse_bpm.ok THEN Rejected(pulse_bpm.error)
        ELSE IF ~spo2_percent.ok THEN Rejected(spo2_percent.error)
        ELSE IF is_some(spo2_percent.value) /\ spo2_percent.value[1] > max_spo2_percent
        THEN Rejected(IntValueTooHigh("spo2_percent", spo2_percent.value[1],
                                      max_spo2_percent))
        ELSE Built([ id |-> -1, timestamp |-> now,
                     systolic_mmhg |-> systolic_mmhg.value,
                     diastolic_mmhg |-> diastolic_mmhg.value,
                     pulse_bpm |-> pulse_bpm.value,
                     spo2_percent |-> spo2_percent.value ])

\* let height_m = height_cm.map(|h| Rational32::new(h, 100));
height_m(config) ==
    IF is_some(config.height_cm) THEN Some(r_new(config.height_cm[1], 100)) ELSE None

\* let square_height_m2 = height_m.map(|h| h * h);
square_height_m2(config, checks) ==
    IF is_some(height_m(config))
    THEN Some(Ratio_mul(height_m(config)[1], height_m(config)[1], checks))
    ELSE None

\* let bmi = square_height_m2.map(|sqh| mass_kg / sqh);
bmi_of(mass_kg, config, checks) ==
    LET sqh == square_height_m2(config, checks)
    IN  IF is_none(sqh) THEN None
        ELSE IF ~sqh[1].ok THEN Some(Panicked)
        ELSE Some(Ratio_div(mass_kg, sqh[1].value[1], checks))

get_mass_measurement_from_form(kv, config, checks) ==
    LET mass_kg == get_req_form_r32_gt0(kv, "mass_kg")
    IN  IF ~mass_kg.ok THEN Rejected(mass_kg.error)
        ELSE LET bmi == bmi_of(mass_kg.value, config, checks)
             IN  IF is_some(bmi) /\ ~bmi[1].ok THEN Unwound
                 ELSE Built([ id |-> -1, timestamp |-> now, mass_kg |-> mass_kg.value,
                              bmi |-> IF is_some(bmi) THEN bmi[1].value ELSE None ])

\* const ABSOLUTE_ZERO_CELSIUS
ABSOLUTE_ZERO_CELSIUS == r_new(-27315, 100)

\* The test rejecting absolute zero itself as well.
not_above_absolute_zero(temp_celsius) == ~r_lt(ABSOLUTE_ZERO_CELSIUS, temp_celsius)

\* if temp_celsius < *ABSOLUTE_ZERO_CELSIUS
below_absolute_zero(temp_celsius) == r_lt(temp_celsius, ABSOLUTE_ZERO_CELSIUS)

get_temperature_measurement_from_form(kv) ==
    LET location_id == get_req_form_i64(kv, "location")
        temp_celsius == get_req_form_r32(kv, "temperature_celsius")
    IN  IF ~location_id.ok THEN Rejected(location_id.error)
        ELSE IF ~temp_celsius.ok THEN Rejected(temp_celsius.error)
        ELSE IF below_absolute_zero(temp_celsius.value)
        THEN Rejected(RationalValueTooLow("temperature_celsius", temp_celsius.value,
                                          ABSOLUTE_ZERO_CELSIUS))
        ELSE Built([ id |-> -1, timestamp |-> now, location_id |-> location_id.value,
                     temperature_celsius |-> temp_celsius.value ])

MMOL_PER_L == Text(<< "m", "m", "o", "l", "-", "p", "e", "r", "-", "l" >>)
MG_PER_DL == Text(<< "m", "g", "-", "p", "e", "r", "-", "d", "l" >>)

\* The match on the unit key, taking every key but the second for the first.
factor_to_mmol_per_l_lenient(unit_key) ==
    IF unit_key = MG_PER_DL THEN Some(r_new(1, 18))
    ELSE Some(r_new(1, 1))

\* if unit_key == "mmol-per-l" { 1/1 } else if unit_key == "mg-per-dl" { 1/18 } else { Err }
factor_to_mmol_per_l(unit_key) ==
    IF unit_key = MMOL_PER_L THEN Some(r_new(1, 1))
    ELSE IF unit_key = MG_PER_DL THEN Some(r_new(1, 18))
    ELSE None

\* let sugar_mmol_per_l = sugar_value * factor_to_mmol_per_l;
sugar_mmol_per_l(sugar_value, factor, checks) == Ratio_mul(sugar_value, factor, checks)

get_sugar_measurement_from_form(kv, checks) ==
    IF "sugar_unit_key" \notin DOMAIN kv THEN Rejected(MissingValue("sugar_unit_key"))
    ELSE LET unit_key == kv["sugar_unit_key"]
             factor == factor_to_mmol_per_l(unit_key)
         IN  IF is_none(factor)
             THEN Rejected(ValueIsInvalidOption("sugar_unit_key", unit_key,
                                                << MMOL_PER_L, MG_PER_DL >>))
             ELSE LET sugar_value == get_req_form_r32_gt0(kv, "sugar_value")
                  IN  IF ~sugar_value.ok THEN Rejected(sugar_value.error)
                      ELSE LET product == sugar_mmol_per_l(sugar_value.value, factor[1],
                                                            checks)
                           IN  IF ~product.ok THEN Unwound
                               ELSE Built([ id |-> -1, timestamp |-> now,
                                            sugar_mmol_per_l |-> product.value[1] ])

\* get_*_measurement_from_form(&req_kv) of the handler.
measurement_from_form(h, kv, config, checks) ==
    CASE h = "index"       -> get_measurement_from_form(kv)
      [] h = "mass"        -> get_mass_measurement_from_form(kv, config, checks)
      [] h = "temperature" -> get_temperature_measurement_from_form(kv)
      [] h = "sugar"       -> get_sugar_measurement_from_form(kv, checks)

-----------------------------------------------------------------------------
(* The forms and the configurations the write path is run on. *)

\* What a form can hold under each key; any key may also be missing.
FormChoices(h) ==
    CASE h = "index" ->
           [ systolic_mmhg  |-> { Text(<< "1", "2", "0" >>), Text(<< "1", "2", "x" >>),
                                  Text(<< "-", "5" >>) },
             diastolic_mmhg |-> { Text(<< "8", "0" >>), Text(<< "0" >>) },
             pulse_bpm      |-> { Text(<< "6", "0" >>), << >> },
             spo2_percent   |-> { Text(<< "0" >>), Text(<< "1", "0", "0" >>),
                                  Text(<< "1", "0", "1" >>), Text(<< "+", "9", "7" >>),
                                  Text(<< "-", "1" >>),
                                  Text(<< "2", "1", "4", "7", "4", "8", "3", "6", "4",
                                          "8" >>) } ]
      [] h = "mass" ->
           [ mass_kg |-> { Text(<< "7", "5", ".", "5" >>), Text(<< "1", "2", ".", "3", "4" >>),
                           Text(<< "+", "7", "0" >>), Text(<< "0" >>),
                           Text(<< "-", "5" >>), << >>,
                           Text(<< "1", ".", "2", ".", "3" >>),
                           Text(<< "7", "5", "x" >>),
                           Text(<< "0", ".", "0", "0", "0", "0", "0", "0", "0", "0", "0",
                                   "1" >>),
                           Text(<< "2", "1", "4", "7", "4", "8", "3", "6", "4", "7" >>),
                           Text(<< "1", "0", "0", ".", "0", "1" >>),
                           Text(<< "1", "2", ".", "3", "4", "5" >>) } ]
      [] h = "temperature" ->
           [ location            |-> { Text(<< "1" >>), Text(<< "x" >>) },
             temperature_celsius |-> { Text(<< "3", "6", ".", "6" >>),
                                       Text(<< "-", "2", "7", "3", ".", "1", "5" >>),
                                       Text(<< "-", "2", "7", "3", ".", "1", "6" >>),
                                       Text(<< "-", "3", "0", "0" >>),
                                       Text(<< "3", "6", ".", "6", "o" >>) } ]
      [] h = "sugar" ->
           [ sugar_unit_key |-> { MMOL_PER_L, MG_PER_DL,
                                  Text(<< "m", "g", "-", "p", "e", "r", "-", "l" >>),
                                  << >> },
             sugar_value    |-> { Text(<< "9", "0" >>), Text(<< "5", ".", "5" >>),
                                  Text(<< "0" >>), Text(<< "-", "1" >>),
                                  Text(<< "9", "0", "x" >>),
                                  Text(<< "0", ".", "0", "0", "0", "0", "0", "0", "0",
                                          "0", "1" >>) } ]

\* form_urlencoded::parse(..).collect(): the HashMap of the submitted fields.
Forms(h) ==
    LET choices == FormChoices(h)
    IN  UNION { { req \in [ keys -> UNION { choices[k] : k \in keys } ] :
                    \A k \in keys : req[k] \in choices[k] } :
                keys \in SUBSET DOMAIN choices }

\* No height, a usual height, a height of zero and one whose square leaves the i32.
PostConfigs ==
    { [ hours |-> HoursStandard, height_cm |-> None,          auth_tokens |-> AuthTokens ],
      [ hours |-> HoursStandard, height_cm |-> Some(180),     auth_tokens |-> AuthTokens ],
      [ hours |-> HoursStandard, height_cm |-> Some(0),       auth_tokens |-> AuthTokens ],
      [ hours |-> HoursStandard, height_cm |-> Some(5000000), auth_tokens |-> AuthTokens ] }

-----------------------------------------------------------------------------
(* The state machine. *)

Init ==
    /\ CONFIG \in Configs
    /\ handler \in Handlers
    /\ pc = "start"
    /\ db_rows \in InputRows(handler)
    /\ recent_measurements = << >>
    /\ measurements_with_spo2 = << >>
    /\ hours = None
    /\ day_to_measurements = EmptyMap
    /\ max_measurement = None
    /\ min_measurement = None
    /\ next_index = 1
    /\ days_and_measurements = << >>
    /\ context = None
    /\ previous = None
    /\ req_kv = EmptyMap
    /\ token = [ write |-> FALSE ]
    /\ overflow_checks = FALSE
    /\ new_measurement = None
    /\ response = None
    /\ inserted = << >>
    /\ request = None

\* The handler obtains the recent measurements and orders them; the three later
\* handlers then declare their running composites.
Fetch ==
    /\ pc = "start"
    /\ LET fetched == order_measurements(handler, fetch_measurements(handler, db_rows, CONFIG))
       IN  /\ recent_measurements' = fetched
           /\ measurements_with_spo2' =
                IF handler = "index" THEN filter_with_spo2(fetched) ELSE << >>
    /\ IF handler = "index"
       THEN /\ pc' = "read_hours"
            /\ UNCHANGED << max_measurement, min_measurement, next_index >>
       ELSE /\ pc' = "loop"
            /\ max_measurement' = None
            /\ min_measurement' = None
            /\ next_index' = 1
    /\ UNCHANGED << CONFIG, handler, db_rows, hours, day_to_measurements,
                    days_and_measurements, context, previous, write_vars >>

\* get_index copies the hours out of the configuration under its read lock and
\* declares the map of the days and the running composites.
ReadHours ==
    /\ pc = "read_hours"
    /\ hours' = Some(CONFIG.hours)
    /\ day_to_measurements' = BTreeMap_new
    /\ max_measurement' = None
    /\ min_measurement' = None
    /\ next_index' = 1
    /\ pc' = "loop"
    /\ UNCHANGED << CONFIG, handler, db_rows, recent_measurements, measurements_with_spo2,
                    days_and_measurements, context, previous, write_vars >>

\* One iteration of `for measurement in &recent_measurements`.
LoopStep ==
    /\ pc = "loop"
    /\ next_index <= Len(recent_measurements)
    /\ LET measurement == recent_measurements[next_index]
       IN  /\ max_measurement' = fold_max(handler, max_measurement, measurement)
           /\ min_measurement' = fold_min(handler, min_measurement, measurement)
           /\ day_to_measurements' =
                IF handler = "index"
                THEN bucket_measurement(day_to_measurements, measurement, loop_hours)
                ELSE day_to_measurements
    /\ next_index' = next_index + 1
    /\ UNCHANGED << CONFIG, handler, pc, db_rows, recent_measurements,
                    measurements_with_spo2, hours, days_and_measurements, context,
                    previous, write_vars >>

\* After the loop: the list of days, the guarded aggregates, the context.
Finish ==
    /\ pc = "loop"
    /\ next_index > Len(recent_measurements)
    /\ LET days == IF handler = "index" THEN collect_days(day_to_measurements) ELSE << >>
       IN  /\ days_and_measurements' = days
           /\ context' = Some(build_context(handler, recent_measurements,
                                            measurements_with_spo2, days,
                                            max_measurement, min_measurement))
    /\ pc' = "done"
    /\ UNCHANGED << CONFIG, handler, db_rows, recent_measurements, measurements_with_spo2,
                    hours, day_to_measurements, max_measurement, min_measurement,
                    next_index, previous, write_vars >>

\* The configuration collaborator replaces the configuration under the write lock.
Reload ==
    /\ pc \notin { "done", "post_done", "post_panicked", "answered", "api_done",
                  "read_back", "read_panicked" }
    /\ CONFIG' \in (IF pc \in { "post_start", "post_body", "post_form", "post_insert" }
                    THEN PostConfigs ELSE Configs) \ { CONFIG }
    /\ UNCHANGED << handler, pc, db_rows, recent_measurements, measurements_with_spo2,
                    hours, day_to_measurements, max_measurement, min_measurement,
                    next_index, days_and_measurements, context, previous, write_vars >>

\* The same request arrives once more over the same table. The new call sees
\* nothing of the finished one: every local is declared again before it is read.
Again ==
    /\ pc = "done"
    /\ is_none(previous)
    /\ previous' = Some([ recent_measurements |-> recent_measurements,
                          hours |-> hours,
                          days_and_measurements |-> days_and_measurements,
                          context |-> context ])
    /\ pc' = "start"
    /\ UNCHANGED << CONFIG, handler, db_rows, recent_measurements, measurements_with_spo2,
                    hours, day_to_measurements, max_measurement, min_measurement,
                    next_index, days_and_measurements, context, write_vars >>

Next == Fetch \/ ReadHours \/ LoopStep \/ Finish \/ Reload

Spec == Init /\ [][Next]_vars

\* The list handlers called twice, over tables of at most MaxRerunLen rows.
InitTwice == Init /\ Len(db_rows) <= MaxRerunLen

NextTwice == Next \/ Again

SpecTwice == InitTwice /\ [][NextTwice]_vars

-----------------------------------------------------------------------------
(* The storage of a mass or a temperature: numerator and denominator are    *)
(* cast to numeric(6, 2) and divided by the database, and the column comes  *)
(* back as text for r32_from_decimal.                                       *)

\* numeric(6, 2): six digits, two of them behind the point.
numeric_precision == 6

numeric_scale == 2

\* The fractional digits the database gives the quotient of two such numerics.
quotient_scale == 16

RECURSIVE ten_to(_)
ten_to(k) == IF k = 0 THEN 1 ELSE 10 * ten_to(k - 1)

\* $n::int::numeric(6, 2): an integer of more than four digits is refused with
\* "numeric field overflow".
cast_to_numeric(n) ==
    IF Abs(n) < ten_to(numeric_precision - numeric_scale) THEN Ok(n)
    ELSE Err("numeric field overflow")

\* ($2::int::numeric(6, 2) / $3::int::numeric(6, 2)) for numer() and denom().
sql_quotient(r) ==
    LET numer == cast_to_numeric(r[1])
        denom == cast_to_numeric(r[2])
    IN  IF ~numer.ok THEN numer
        ELSE IF ~denom.ok THEN denom
        ELSE Ok(<< numer.value, denom.value >>)

\* add_mass_measurement, add_temperature_measurement: the value the INSERT
\* computes, or the error of the statement. The other two tables take integers.
add_measurement(h, measurement) ==
    CASE h = "mass"        -> sql_quotient(measurement.mass_kg)
      [] h = "temperature" -> sql_quotient(measurement.temperature_celsius)
      [] OTHER             -> Ok(<< 0, 1 >>)

\* The decimal digits of a natural number.
RECURSIVE digits_of(_)
digits_of(n) ==
    IF n < 10 THEN << 48 + n >>
    ELSE Append(digits_of(n \div 10), 48 + (n % 10))

\* The first `count` digits behind the point of rem / denom, by long division.
RECURSIVE fraction_digits(_, _, _)
fraction_digits(rem, denom, count) ==
    IF count = 0 THEN << >>
    ELSE << 48 + ((rem * 10) \div denom) >>
           \o fraction_digits((rem * 10) % denom, denom, count - 1)

\* The text of the quotient numer / denom with `scale` digits behind the point,
\* rounded half away from zero as numeric rounds.
numeric_text(q, scale) ==
    LET unit == ten_to(scale)
        scaled == (2 * Abs(q[1]) * unit + q[2]) \div (2 * q[2])
    IN  (IF q[1] < 0 /\ scaled > 0 THEN << 45 >> ELSE << >>)
          \o digits_of(scaled \div unit)
          \o << 46 >>
          \o fraction_digits(scaled % unit, unit, scale)

\* The text of the quotient as the division leaves it: sixteen digits behind
\* the point.
quotient_text(q) ==
    (IF q[1] < 0 THEN << 45 >> ELSE << >>)
      \o digits_of(Abs(q[1]) \div q[2])
      \o << 46 >>
      \o fraction_digits(Abs(q[1]) % q[2], q[2], quotient_scale)

\* The types the column of the value may have: the schema is not part of the
\* sources. numeric(6, 2) rounds what is stored to two digits behind the
\* point; numeric keeps the quotient as it is.
ColumnTypes == { "numeric(6, 2)", "numeric" }

\* mass_kg::character varying(128), temperature_celsius::character varying(128)
column_text(q, column_type) ==
    IF column_type = "numeric(6, 2)" THEN numeric_text(q, numeric_scale)
    ELSE quotient_text(q)

\* The value of an inserted measurement.
stored_value(h, measurement) ==
    IF h = "mass" THEN measurement.mass_kg ELSE measurement.temperature_celsius

\* r32_from_decimal(&mass_string).expect("parsing mass failed")
expect_r32_from_decimal(text) ==
    IF r32_from_decimal(text).ok THEN Returned(r32_from_decimal(text).value)
    ELSE Panicked

\* get_recent_mass_measurements, get_recent_temperature_measurements over the
\* row that was inserted: the measurement, or a panic.
get_recent_measurements(h, measurement, column_type, config, checks) ==
    LET q == sql_quotient(stored_value(h, measurement)).value
        value == expect_r32_from_decimal(column_text(q, column_type))
    IN  IF ~value.ok THEN Panicked
        ELSE IF h = "mass"
        THEN LET bmi == bmi_of(value.value[1], config, checks)
             IN  IF is_some(bmi) /\ ~bmi[1].ok THEN Panicked
                 ELSE Returned([ id |-> 1, timestamp |-> measurement.timestamp,
                                 mass_kg |-> value.value[1],
                                 bmi |-> IF is_some(bmi) THEN bmi[1].value ELSE None ])
        ELSE Returned([ id |-> 1, timestamp |-> measurement.timestamp,
                        location_id |-> measurement.location_id,
                        temperature_celsius |-> value.value[1] ])

-----------------------------------------------------------------------------
(* The responses. Templates are taken to render and the configured base URL  *)
(* to parse.                                                                  *)

ContentType == [ k \in { "Content-Type" } |-> "text/html; charset=utf-8" ]

\* respond_template: the given status, Content-Type and the given headers.
respond_template(template_name, ctx, status, headers) ==
    [ status |-> status, headers |-> ContentType @@ headers,
      body |-> [ template |-> template_name, context |-> ctx ] ]

\* respond_500: Response::builder().header(..).body(..). No .status(..) is
\* called, so the response keeps the builder's status, StatusCode::default(),
\* which is 200 OK.
respond_500 ==
    [ status |-> 200, headers |-> ContentType,
      body |-> [ template |-> "Internal Server Error", context |-> EmptyMap ] ]

respond_400(err) ==
    respond_template("400.html.tera", [ k \in { "error" } |-> err ], 400, EmptyMap)

respond_403_ro ==
    respond_template("403_ro.html.tera", EmptyMap, 403,
                     [ k \in { "Forbidden-Reason" } |-> "token-read-only" ])

\* The path the router serves the handler under.
path_of(h) ==
    CASE h = "index" -> "/" [] h = "mass" -> "/mass"
      [] h = "temperature" -> "/temperature" [] h = "sugar" -> "/sugar"

\* redirect_to_self: 302 with Location, the request's own URI under base_url.
redirect_to_self(h) ==
    respond_template("redirect.html.tera", [ k \in { "url" } |-> path_of(h) ], 302,
                     [ k \in { "Location" } |-> path_of(h) ])

-----------------------------------------------------------------------------
(* The four POST handlers. *)

InitPost ==
    /\ CONFIG \in PostConfigs
    /\ handler \in Handlers
    /\ pc = "post_start"
    /\ db_rows = << >>
    /\ recent_measurements = << >>
    /\ measurements_with_spo2 = << >>
    /\ hours = None
    /\ day_to_measurements = EmptyMap
    /\ max_measurement = None
    /\ min_measurement = None
    /\ next_index = 1
    /\ days_and_measurements = << >>
    /\ context = None
    /\ previous = None
    /\ req_kv \in Forms(handler)
    /\ token \in { [ write |-> TRUE ], [ write |-> FALSE ] }
    /\ overflow_checks \in BOOLEAN
    /\ new_measurement = None
    /\ response = None
    /\ inserted = << >>
    /\ request = None

\* if !token.write { return respond_403_ro().await; }
PostAuthorize ==
    /\ pc = "post_start"
    /\ IF ~token.write
       THEN /\ response' = Some(respond_403_ro)
            /\ pc' = "post_done"
       ELSE /\ pc' = "post_body"
            /\ UNCHANGED response
    /\ UNCHANGED << CONFIG, handler, read_vars, request, req_kv, token, overflow_checks,
                    new_measurement, inserted >>

\* body::to_bytes(req_body).await, which may fail, and the parse of the form.
PostReadBody ==
    /\ pc = "post_body"
    /\ \E read \in BOOLEAN :
         IF read
         THEN /\ pc' = "post_form"
              /\ UNCHANGED response
         ELSE /\ response' = Some(respond_500)
              /\ pc' = "post_done"
    /\ UNCHANGED << CONFIG, handler, read_vars, request, req_kv, token, overflow_checks,
                    new_measurement, inserted >>

\* match get_*_measurement_from_form(&req_kv) { Ok(nm) => nm, Err(e) => respond_400 }
\* A panic unwinds the task of the connection: no response is written.
PostBuild ==
    /\ pc = "post_form"
    /\ LET result == measurement_from_form(handler, req_kv, CONFIG, overflow_checks)
       IN  /\ new_measurement' = Some(result)
           /\ CASE result.kind = "Ok" ->
                     /\ pc' = "post_insert"
                     /\ UNCHANGED response
                [] result.kind = "Err" ->
                     /\ response' = Some(respond_400(result.error))
                     /\ pc' = "post_done"
                [] result.kind = "Panic" ->
                     /\ pc' = "post_panicked"
                     /\ UNCHANGED response
    /\ UNCHANGED << CONFIG, handler, read_vars, request, req_kv, token, overflow_checks, inserted >>

\* add_*_measurement(&new_measurement).await, then redirect_to_self. The
\* statement fails when the database cannot be reached or refuses a cast.
PostInsert ==
    /\ pc = "post_insert"
    /\ \E stored \in BOOLEAN :
         IF stored /\ add_measurement(handler, new_measurement[1].measurement).ok
         THEN /\ inserted' = Append(inserted, new_measurement[1].measurement)
              /\ response' = Some(redirect_to_self(handler))
         ELSE /\ response' = Some(respond_500)
              /\ UNCHANGED inserted
    /\ pc' = "post_done"
    /\ UNCHANGED << CONFIG, handler, read_vars, request, req_kv, token, overflow_checks,
                    new_measurement >>

NextPost == PostAuthorize \/ PostReadBody \/ PostBuild \/ PostInsert \/ Reload

SpecPost == InitPost /\ [][NextPost]_vars

\* The stored measurement is read again, as the page the redirect leads to
\* reads it.
ReadBack ==
    /\ pc = "post_done"
    /\ handler \in { "mass", "temperature" }
    /\ inserted # << >>
    /\ \E column_type \in ColumnTypes :
         LET read == get_recent_measurements(handler, inserted[1], column_type, CONFIG,
                                             overflow_checks)
         IN  IF read.ok
             THEN /\ recent_measurements' = << read.value[1] >>
                  /\ pc' = "read_back"
             ELSE /\ pc' = "read_panicked"
                  /\ UNCHANGED recent_measurements
    /\ UNCHANGED << CONFIG, handler, db_rows, measurements_with_spo2, hours,
                    day_to_measurements, max_measurement, min_measurement, next_index,
                    days_and_measurements, context, previous, write_vars >>

\* A mass or a temperature is posted and then read again.
InitStore == InitPost /\ handler \in { "mass", "temperature" }

NextStore == NextPost \/ ReadBack

SpecStore == InitStore /\ [][NextStore]_vars

-----------------------------------------------------------------------------
(* handle_request: static files, the token check, the routes. *)

\* The literal start of STATIC_PATH_RE.
static_prefix == Text(<< "/", "s", "t", "a", "t", "i", "c", "/" >>)

\* A character of the class [a-z0-9-._].
is_file_name_char(c) ==
    \/ c >= 97 /\ c <= 122
    \/ is_digit(c)
    \/ c = 45 \/ c = 46 \/ c = 95

\* STATIC_PATH_RE.captures(path): ^/static/([a-z0-9-._]+)$, the captured name.
STATIC_PATH_RE_captures(path) ==
    IF /\ Len(path) > Len(static_prefix)
       /\ SubSeq(path, 1, Len(static_prefix)) = static_prefix
       /\ \A i \in (Len(static_prefix) + 1)..Len(path) : is_file_name_char(path[i])
    THEN Some(SubSeq(path, Len(static_prefix) + 1, Len(path)))
    ELSE None

\* The files compiled into the binary, as far as the model serves them.
static_files == { Text(<< "s", "t", "y", "l", "e", ".", "c", "s", "s" >>) }

respond_404 == respond_template("404.html.tera", EmptyMap, 404, EmptyMap)

respond_403 == respond_template("403.html.tera", EmptyMap, 403, EmptyMap)

respond_405(allowed_methods) ==
    respond_template("405.html.tera", [ k \in { "allowed_methods" } |-> allowed_methods ],
                     405, [ k \in { "Allow" } |-> allowed_methods ])

\* respond_static_file: the file under the builder's status 200, or 404.
respond_static_file(file_name) ==
    IF file_name \in static_files
    THEN [ status |-> 200, headers |-> [ k \in { "Content-Type" } |-> "text/css" ],
           body |-> [ template |-> file_name, context |-> EmptyMap ] ]
    ELSE respond_404

\* form_urlencoded::parse(..).collect() into a HashMap: of two pairs with the
\* same key the later one stays.
RECURSIVE collect_pairs(_)
collect_pairs(pairs) ==
    IF pairs = << >> THEN EmptyMap
    ELSE LET last == pairs[Len(pairs)]
         IN  [ k \in { last[1] } |-> last[2] ]
               @@ collect_pairs(SubSeq(pairs, 1, Len(pairs) - 1))

\* auth_tokens.iter().filter(|t| &t.token == token_value) that takes every token.
matching_tokens_any(auth_tokens, token_value) ==
    SelectSeq(auth_tokens, LAMBDA t : TRUE)

\* auth_tokens.iter().filter(|t| &t.token == token_value)
matching_tokens(auth_tokens, token_value) ==
    SelectSeq(auth_tokens, LAMBDA t : t.token = token_value)

\* The token check: the AuthToken of the request, or none.
token_opt(req, config) ==
    IF is_none(req.query) THEN None
    ELSE LET query_kv == collect_pairs(req.query[1])
         IN  IF "token" \notin DOMAIN query_kv THEN None
             ELSE LET found == matching_tokens(config.auth_tokens, query_kv["token"])
                  IN  IF found = << >> THEN None ELSE Some(found[1])

\* The handler a path belongs to, and whether it is the JSON one.
Routes ==
    { [ path |-> Text(<< "/" >>), handler |-> "index", api |-> FALSE ],
      [ path |-> Text(<< "/", "m", "a", "s", "s" >>), handler |-> "mass", api |-> FALSE ],
      [ path |-> Text(<< "/", "t", "e", "m", "p", "e", "r", "a", "t", "u", "r", "e" >>),
        handler |-> "temperature", api |-> FALSE ],
      [ path |-> Text(<< "/", "s", "u", "g", "a", "r" >>), handler |-> "sugar", api |-> FALSE ],
      [ path |-> Text(<< "/", "a", "p", "i", "/", "b", "p" >>), handler |-> "index", api |-> TRUE ],
      [ path |-> Text(<< "/", "a", "p", "i", "/", "m", "a", "s", "s" >>),
        handler |-> "mass", api |-> TRUE ],
      [ path |-> Text(<< "/", "a", "p", "i", "/", "t", "e", "m", "p", "e", "r", "a", "t", "u", "r", "e" >>),
        handler |-> "temperature", api |-> TRUE ],
      [ path |-> Text(<< "/", "a", "p", "i", "/", "s", "u", "g", "a", "r" >>),
        handler |-> "sugar", api |-> TRUE ] }

\* The requests the model sends.
RequestPaths ==
    { r.path : r \in Routes } \cup
    { Text(<< "/", "s", "t", "a", "t", "i", "c", "/", "s", "t", "y", "l", "e", ".", "c", "s", "s" >>),
      Text(<< "/", "s", "t", "a", "t", "i", "c", "/", "x", ".", "j", "s" >>),
      Text(<< "/", "s", "t", "a", "t", "i", "c", "/" >>),
      Text(<< "/", "s", "t", "a", "t", "i", "c", "/", "S" >>),
      Text(<< "/", "s", "t", "a", "t", "i", "c", "/", "a", "/", "b" >>),
      Text(<< "/", "x" >>) }

RequestMethods == { "GET", "POST", "DELETE" }

RequestQueries ==
    { None,
      Some(<< >>),
      Some(<< << "token", "writer" >> >>),
      Some(<< << "token", "reader" >> >>),
      Some(<< << "token", "stranger" >> >>),
      Some(<< << "token", "" >> >>),
      Some(<< << "tok", "writer" >> >>),
      Some(<< << "token", "writer" >>, << "token", "stranger" >> >>) }

Requests == [ path : RequestPaths, method : RequestMethods, query : RequestQueries ]

\* Configurations with the usual tokens and with none at all.
RequestConfigs ==
    { [ hours |-> HoursStandard, height_cm |-> Some(180), auth_tokens |-> AuthTokens ],
      [ hours |-> HoursStandard, height_cm |-> Some(180), auth_tokens |-> << >> ] }

\* The table a routed handler finds, and the form a routed POST carries.
RequestRows(h) == { rows \in InputRows(h) : Len(rows) = 1 }

RequestForms(h) ==
    IF h = "index"
    THEN { [ k \in { "systolic_mmhg", "diastolic_mmhg", "pulse_bpm" } |->
               CASE k = "systolic_mmhg" -> Text(<< "1", "2", "0" >>)
                 [] k = "diastolic_mmhg" -> Text(<< "8", "0" >>)
                 [] k = "pulse_bpm" -> Text(<< "6", "0" >>) ] }
    ELSE { EmptyMap }

InitRequest ==
    /\ CONFIG \in RequestConfigs
    /\ handler = "none"
    /\ pc = "request"
    /\ db_rows = << >>
    /\ recent_measurements = << >>
    /\ measurements_with_spo2 = << >>
    /\ hours = None
    /\ day_to_measurements = EmptyMap
    /\ max_measurement = None
    /\ min_measurement = None
    /\ next_index = 1
    /\ days_and_measurements = << >>
    /\ context = None
    /\ previous = None
    /\ req_kv = EmptyMap
    /\ token = [ write |-> FALSE ]
    /\ overflow_checks = FALSE
    /\ new_measurement = None
    /\ response = None
    /\ inserted = << >>
    /\ request \in { Some(r) : r \in Requests }

\* if let Some(cap) = STATIC_PATH_RE.captures(..) { return respond_static_file(..) }
ServeStatic ==
    /\ pc = "request"
    /\ is_some(STATIC_PATH_RE_captures(request[1].path))
    /\ response' = Some(respond_static_file(STATIC_PATH_RE_captures(request[1].path)[1]))
    /\ pc' = "answered"
    /\ UNCHANGED << CONFIG, handler, read_vars, request, req_kv, token, overflow_checks,
                    new_measurement, inserted >>

\* The query string, its token parameter and the lookup among the configured
\* tokens under the read lock: 403 unless all three are there.
Authenticate ==
    /\ pc = "request"
    /\ is_none(STATIC_PATH_RE_captures(request[1].path))
    /\ LET found == token_opt(request[1], CONFIG)
       IN  IF is_none(found)
           THEN /\ response' = Some(respond_403)
                /\ pc' = "answered"
                /\ UNCHANGED token
           ELSE /\ token' = found[1]
                /\ pc' = "authenticated"
                /\ UNCHANGED response
    /\ UNCHANGED << CONFIG, handler, read_vars, request, req_kv, overflow_checks,
                    new_measurement, inserted >>

\* The chain of path and method tests that calls a handler or answers 405 / 404.
Route ==
    /\ pc = "authenticated"
    /\ LET req == request[1]
           routes == { r \in Routes : r.path = req.path }
       IN  IF routes = { }
           THEN /\ response' = Some(respond_404)
                /\ pc' = "answered"
                /\ UNCHANGED << handler, db_rows, req_kv >>
           ELSE LET route == CHOOSE r \in routes : TRUE
                IN  IF req.method = "GET"
                    THEN /\ handler' = route.handler
                         /\ pc' = IF route.api THEN "api" ELSE "start"
                         /\ db_rows' \in RequestRows(route.handler)
                         /\ UNCHANGED << response, req_kv >>
                    ELSE IF req.method = "POST" /\ ~route.api
                    THEN /\ handler' = route.handler
                         /\ pc' = "post_start"
                         /\ req_kv' \in RequestForms(route.handler)
                         /\ UNCHANGED << response, db_rows >>
                    ELSE /\ response' = Some(respond_405(IF route.api THEN "GET"
                                                         ELSE "GET, POST"))
                         /\ pc' = "answered"
                         /\ UNCHANGED << handler, db_rows, req_kv >>
    /\ UNCHANGED << CONFIG, recent_measurements, measurements_with_spo2, hours,
                    day_to_measurements, max_measurement, min_measurement, next_index,
                    days_and_measurements, context, previous, request, token,
                    overflow_checks, new_measurement, inserted >>

\* get_api_*: the recent measurements, oldest first, as JSON.
ApiFetch ==
    /\ pc = "api"
    /\ recent_measurements' =
         sort_by_timestamp(fetch_measurements(handler, db_rows, CONFIG))
    /\ response' = Some([ status |-> 200,
                          headers |-> [ k \in { "Content-Type" } |-> "application/json" ],
                          body |-> [ template |-> "json", context |-> EmptyMap ] ])
    /\ pc' = "api_done"
    /\ UNCHANGED << CONFIG, handler, db_rows, measurements_with_spo2, hours,
                    day_to_measurements, max_measurement, min_measurement, next_index,
                    days_and_measurements, context, previous, request, req_kv, token,
                    overflow_checks, new_measurement, inserted >>

NextRequest ==
    \/ ServeStatic \/ Authenticate \/ Route \/ ApiFetch
    \/ Fetch \/ ReadHours \/ LoopStep \/ Finish
    \/ PostAuthorize \/ PostReadBody \/ PostBuild \/ PostInsert
    \/ Reload

SpecRequest == InitRequest /\ [][NextRequest]_vars

-----------------------------------------------------------------------------
(* Vocabulary of the properties. *)

\* Days since 1970-01-01 of a civil date (proleptic Gregorian calendar).
DayNumber(day) ==
    LET y1  == IF day.m <= 2 THEN day.y - 1 ELSE day.y
        era == y1 \div 400
        yoe == y1 - era * 400
        mp  == IF day.m > 2 THEN day.m - 3 ELSE day.m + 9
        doy == (153 * mp + 2) \div 5 + day.d - 1
        doe == yoe * 365 + yoe \div 4 - yoe \div 100 + doy
    IN  era * 146097 + doe - 719468

\* The civil date of a day number.
CivilDate(z) ==
    LET z1  == z + 719468
        era == z1 \div 146097
        doe == z1 - era * 146097
        yoe == (doe - doe \div 1460 + doe \div 36524 - doe \div 146096) \div 365
        doy == doe - (365 * yoe + yoe \div 4 - yoe \div 100)
        mp  == (5 * doy + 2) \div 153
        dd  == doy - (153 * mp + 2) \div 5 + 1
        mm  == IF mp < 10 THEN mp + 3 ELSE mp - 9
    IN  [ y |-> IF mm <= 2 THEN yoe + era * 400 + 1 ELSE yoe + era * 400,
          m |-> mm, d |-> dd ]

\* The date a "YYYY-MM-DD" key denotes.
KeyDate(k) ==
    [ y |-> (k[1] - 48) * 1000 + (k[2] - 48) * 100 + (k[3] - 48) * 10 + (k[4] - 48),
      m |-> (k[6] - 48) * 10 + (k[7] - 48),
      d |-> (k[9] - 48) * 10 + (k[10] - 48) ]

IsDateKey(k) ==
    /\ Len(k) = 10 /\ k[5] = 45 /\ k[8] = 45
    /\ \A i \in { 1, 2, 3, 4, 6, 7, 9, 10 } : k[i] \in 48..57
    /\ CivilDate(DayNumber(KeyDate(k))) = KeyDate(k)

\* The measurements of a bucket's overflow list.
OtherSet(e) == { e.other[i] : i \in 1..Len(e.other) }

\* The slots of bucket e that hold measurement m.
SlotsOf(e, m) ==
    { s \in { "morning", "midday", "evening" } : e[s] = Some(m) }
      \cup (IF m \in OtherSet(e) THEN { "other" } ELSE { })

\* The keys of the buckets that hold measurement m.
KeysOf(m) == { k \in DOMAIN day_to_measurements : SlotsOf(day_to_measurements[k], m) # { } }

\* The bucketing pass of get_index is under way or over.
InPass == handler = "index" /\ pc \in { "loop", "done" }

\* The measurements the loop has processed so far.
Processed == { recent_measurements[i] : i \in 1..(next_index - 1) }

\* C1: every measurement the pass has placed lies in the bucket whose key is the
\* calendar date of its timestamp when its hour >= morning_start, and the date
\* one day earlier (across month and year ends too) when its hour < morning_start.
C1_DateKey ==
    InPass =>
        \A m \in Processed :
            /\ KeysOf(m) # { }
            /\ \A k \in KeysOf(m) :
                 /\ IsDateKey(k)
                 /\ DayNumber(KeyDate(k)) =
                      IF m.timestamp.hour >= hours[1].morning_start
                      THEN DayNumber(m.timestamp.date)
                      ELSE DayNumber(m.timestamp.date) - 1

\* A reading at 03:00 on 2024-01-01 lies in the bucket of 2023-12-31, and one at
\* 03:00 on 2024-03-01 in the bucket of 2024-02-29.
C1_Witness ==
    /\ InPass
    /\ \E m1, m2 \in Processed :
         /\ m1.timestamp = [ date |-> [ y |-> 2024, m |-> 1, d |-> 1 ], hour |-> 3 ]
         /\ m2.timestamp = [ date |-> [ y |-> 2024, m |-> 3, d |-> 1 ], hour |-> 3 ]
         /\ hours[1].morning_start > 3
         /\ format_date([ y |-> 2023, m |-> 12, d |-> 31 ]) \in KeysOf(m1)
         /\ format_date([ y |-> 2024, m |-> 2, d |-> 29 ]) \in KeysOf(m2)

\* The entry of key k before it may exist: the empty one.
EntryAt(dtm, k) == IF k \in DOMAIN dtm THEN dtm[k] ELSE new_empty(k)

\* The place the ordered rule list names for a reading at hour hr, given entry e.
RulePlace(e, hr, h) ==
    CASE hr < h.morning_start /\ is_none(e.evening) -> "evening"
      [] /\ ~ (hr < h.morning_start /\ is_none(e.evening))
         /\ h.morning_start <= hr /\ hr < h.morning_end /\ is_none(e.morning) -> "morning"
      [] /\ ~ (hr < h.morning_start /\ is_none(e.evening))
         /\ ~ (h.morning_start <= hr /\ hr < h.morning_end /\ is_none(e.morning))
         /\ h.midday_start <= hr /\ hr < h.midday_end /\ is_none(e.midday) -> "midday"
      [] /\ ~ (hr < h.morning_start /\ is_none(e.evening))
         /\ ~ (h.morning_start <= hr /\ hr < h.morning_end /\ is_none(e.morning))
         /\ ~ (h.midday_start <= hr /\ hr < h.midday_end /\ is_none(e.midday))
         /\ hr >= h.evening_start /\ is_none(e.evening) -> "evening"
      [] OTHER -> "other"

\* The hour lies in none of the configured windows.
InNoWindow(hr, h) ==
    /\ ~ (hr < h.morning_start)
    /\ ~ (h.morning_start <= hr /\ hr < h.morning_end)
    /\ ~ (h.midday_start <= hr /\ hr < h.midday_end)
    /\ ~ (hr >= h.evening_start)

\* A step of the pass that processes one measurement.
IsBucketStep == handler = "index" /\ pc = "loop" /\ next_index' = next_index + 1

\* What C2 asks of one step: exactly one entry changes, by exactly the place
\* the rule list names for the entry as it was before the step.
C2_Step ==
    IsBucketStep =>
        LET m == recent_measurements[next_index]
            hr == m.timestamp.hour
        IN  \E k \in DOMAIN day_to_measurements' :
              LET e == EntryAt(day_to_measurements, k)
                  place == RulePlace(e, hr, hours[1])
                  after == day_to_measurements'[k]
              IN  /\ DOMAIN day_to_measurements' = DOMAIN day_to_measurements \cup { k }
                  /\ \A o \in DOMAIN day_to_measurements \ { k } :
                       day_to_measurements'[o] = day_to_measurements[o]
                  /\ after.morning = IF place = "morning" THEN Some(m) ELSE e.morning
                  /\ after.midday = IF place = "midday" THEN Some(m) ELSE e.midday
                  /\ after.evening = IF place = "evening" THEN Some(m) ELSE e.evening
                  /\ after.other = IF place = "other" THEN Append(e.other, m) ELSE e.other
                  /\ InNoWindow(hr, hours[1]) => after.other = Append(e.other, m)

\* C2: every measurement is placed by the first matching rule of the ordered
\* list (night -> evening, morning, midday, evening, otherwise overflow), judged
\* on the bucket as it is at that moment; an hour in no window goes to overflow.
C2_FirstMatchingRule == [][C2_Step]_vars

\* Under overlapping windows a 12:00 reading took the morning slot although the
\* midday window matched as well, and a 20:00 reading in no window overflowed.
C2_Witness ==
    /\ InPass
    /\ hours[1] = HoursOverlapping
    /\ \E k1, k2 \in DOMAIN day_to_measurements :
         /\ is_some(day_to_measurements[k1].morning)
         /\ day_to_measurements[k1].morning[1].timestamp.hour = 12
         /\ is_none(day_to_measurements[k1].midday)
         /\ is_none(day_to_measurements[k2].evening)
         /\ \E m \in OtherSet(day_to_measurements[k2]) : m.timestamp.hour = 20

\* The position of a measurement in the ordered sequence.
Position(m) == CHOOSE i \in 1..Len(recent_measurements) : recent_measurements[i] = m

\* The key of the calendar date before the measurement's own.
PreviousDateKey(m) == format_date(CivilDate(DayNumber(m.timestamp.date) - 1))

\* C3 as stated: every reading taken before morning_start is in the evening slot
\* of the previous date's bucket.
C3_AlwaysEvening ==
    InPass =>
        \A m \in Processed :
            m.timestamp.hour < hours[1].morning_start =>
                /\ PreviousDateKey(m) \in DOMAIN day_to_measurements
                /\ day_to_measurements[PreviousDateKey(m)].evening = Some(m)

\* C3, amended: every reading taken before morning_start lies in the previous
\* date's bucket and nowhere else: in its evening slot, or, when that slot
\* already held an earlier reading of the pass, in the overflow list or (hour
\* inside the midday window) in the midday slot.
C3_Rollover ==
    InPass =>
        \A m \in Processed :
            m.timestamp.hour < hours[1].morning_start =>
                /\ KeysOf(m) = { PreviousDateKey(m) }
                /\ LET e == day_to_measurements[PreviousDateKey(m)]
                   IN  \/ SlotsOf(e, m) = { "evening" }
                       \/ /\ is_some(e.evening)
                          /\ e.evening[1] \in Processed
                          /\ Position(e.evening[1]) < Position(m)
                          /\ \/ SlotsOf(e, m) = { "other" }
                             \/ /\ SlotsOf(e, m) = { "midday" }
                                /\ hours[1].midday_start <= m.timestamp.hour
                                /\ m.timestamp.hour < hours[1].midday_end

\* Two readings at 03:00 of the same day: the first has the previous date's
\* evening slot, the second its overflow list.
C3_Witness ==
    /\ InPass
    /\ \E m1, m2 \in Processed :
         /\ m1 # m2
         /\ m1.timestamp.hour < hours[1].morning_start
         /\ m2.timestamp.hour < hours[1].morning_start
         /\ PreviousDateKey(m1) \in DOMAIN day_to_measurements
         /\ PreviousDateKey(m2) = PreviousDateKey(m1)
         /\ day_to_measurements[PreviousDateKey(m1)].evening = Some(m1)
         /\ m2 \in OtherSet(day_to_measurements[PreviousDateKey(m1)])

\* What C4 asks of one step: a filled slot keeps its measurement, a slot that
\* gets filled was empty and receives the measurement of this step, no slot
\* holds more than one, and a measurement that fills no slot is appended to
\* the overflow list of its bucket.
C4_Step ==
    IsBucketStep =>
        LET m == recent_measurements[next_index]
        IN  /\ \A k \in DOMAIN day_to_measurements :
                 /\ k \in DOMAIN day_to_measurements'
                 /\ \A s \in { "morning", "midday", "evening" } :
                      is_some(day_to_measurements[k][s]) =>
                          day_to_measurements'[k][s] = day_to_measurements[k][s]
            /\ \A k \in DOMAIN day_to_measurements' :
                 \A s \in { "morning", "midday", "evening" } :
                   /\ Len(day_to_measurements'[k][s]) <= 1
                   /\ (is_some(day_to_measurements'[k][s]) /\
                       is_none(EntryAt(day_to_measurements, k)[s])) =>
                          day_to_measurements'[k][s] = Some(m)
            /\ \/ \E k \in DOMAIN day_to_measurements' :
                    \E s \in { "morning", "midday", "evening" } :
                       /\ is_none(EntryAt(day_to_measurements, k)[s])
                       /\ day_to_measurements'[k][s] = Some(m)
               \/ \E k \in DOMAIN day_to_measurements' :
                    day_to_measurements'[k].other =
                        Append(EntryAt(day_to_measurements, k).other, m)

\* C4: each slot of a bucket holds at most one measurement and a filled slot is
\* never overwritten or cleared later in the pass; later readings that match
\* only filled slots go to the overflow list.
C4_SlotsKept == [][C4_Step]_vars

\* An evening slot is filled and a later evening reading of the same bucket is
\* in its overflow list.
C4_Witness ==
    /\ InPass
    /\ \E k \in DOMAIN day_to_measurements :
         LET e == day_to_measurements[k]
         IN  /\ is_some(e.evening)
             /\ e.evening[1].timestamp.hour >= hours[1].evening_start
             /\ \E m \in OtherSet(e) :
                  /\ m.timestamp.hour >= hours[1].evening_start
                  /\ Position(e.evening[1]) < Position(m)

\* The handler has built its context.
IsDone(h) == handler = h /\ pc = "done"

\* The key of the date a measurement is attributed to, by day arithmetic.
AttributedKey(m, h) ==
    format_date(CivilDate(DayNumber(m.timestamp.date)
                          - (IF m.timestamp.hour < h.morning_start THEN 1 ELSE 0)))

\* The number of measurements a bucket holds.
BucketSize(e) == Len(e.morning) + Len(e.midday) + Len(e.evening) + Len(e.other)

\* C5: the list of buckets get_index hands on has exactly one bucket per
\* attributed date, none of them empty, most recent date first.
C5_DaysDescending ==
    IsDone("index") =>
        LET days == days_and_measurements
        IN  /\ { days[i].date_string : i \in 1..Len(days) } =
                 { AttributedKey(recent_measurements[j], hours[1]) :
                      j \in 1..Len(recent_measurements) }
            /\ \A i \in 1..Len(days) : BucketSize(days[i]) > 0
            /\ \A i \in 1..(Len(days) - 1) :
                 DayNumber(KeyDate(days[i].date_string)) >
                     DayNumber(KeyDate(days[i + 1].date_string))

\* Three days, across the turn of the year: 2024-03-01, 2024-01-01, 2023-12-31.
C5_Witness ==
    /\ IsDone("index")
    /\ Len(days_and_measurements) = 3
    /\ days_and_measurements[1].date_string = format_date([ y |-> 2024, m |-> 3, d |-> 1 ])
    /\ days_and_measurements[3].date_string = format_date([ y |-> 2023, m |-> 12, d |-> 31 ])

\* The buckets the first n measurements produce under fixed hours h.
RECURSIVE BucketsOfPrefix(_, _)
BucketsOfPrefix(n, h) ==
    IF n = 0 THEN EmptyMap
    ELSE bucket_measurement(BucketsOfPrefix(n - 1, h), recent_measurements[n], h)

\* C6: throughout a pass the buckets are those the values read before the loop
\* produce; a configuration reload during the pass changes no date key and no slot.
C6_Snapshot ==
    InPass =>
        /\ is_some(hours)
        /\ day_to_measurements = BucketsOfPrefix(next_index - 1, hours[1])

\* The configuration was replaced in mid-pass, and the rest of the pass would be
\* bucketed differently under the new hours.
C6_Witness ==
    /\ InPass
    /\ next_index > 2
    /\ CONFIG.hours # hours[1]
    /\ day_to_measurements # BucketsOfPrefix(next_index - 1, CONFIG.hours)
    /\ BucketsOfPrefix(1, hours[1]) = BucketsOfPrefix(1, CONFIG.hours)

\* The loop of a list handler is under way or over.
InFold == pc \in { "loop", "done" }

\* The values of field f present in the first n measurements.
PresentSet(f, n) ==
    IF f \in optional_fields(handler)
    THEN { recent_measurements[i][f][1] :
             i \in { j \in 1..n : is_some(recent_measurements[j][f]) } }
    ELSE { recent_measurements[i][f] : i \in 1..n }

\* v is the greatest (least) value of the set S.
IsGreatest(v, S) == v \in S /\ \A w \in S : ~ value_lt(handler, v, w)

IsLeast(v, S) == v \in S /\ \A w \in S : ~ value_lt(handler, w, v)

\* C7: the running max and min composites are absent before the first
\* measurement, equal to it after one, and hold per field the maximum (minimum)
\* over the measurements so far in which the field is present.
C7_FieldwiseFold ==
    InFold =>
        LET n == next_index - 1
        IN  /\ n = 0 => is_none(max_measurement) /\ is_none(min_measurement)
            /\ n = 1 => /\ max_measurement = Some(recent_measurements[1])
                        /\ min_measurement = Some(recent_measurements[1])
            /\ n >= 1 =>
                 /\ is_some(max_measurement) /\ is_some(min_measurement)
                 /\ \A f \in required_fields(handler) :
                      /\ IsGreatest(max_measurement[1][f], PresentSet(f, n))
                      /\ IsLeast(min_measurement[1][f], PresentSet(f, n))
                 /\ \A f \in optional_fields(handler) :
                      IF PresentSet(f, n) = { }
                      THEN is_none(max_measurement[1][f]) /\ is_none(min_measurement[1][f])
                      ELSE /\ is_some(max_measurement[1][f])
                           /\ IsGreatest(max_measurement[1][f][1], PresentSet(f, n))
                           /\ is_some(min_measurement[1][f])
                           /\ IsLeast(min_measurement[1][f][1], PresentSet(f, n))

\* The max composite is no single reading: no measurement has both its systolic
\* and its diastolic value, and its oxygen saturation comes from a later reading
\* than the first, which had none.
C7_Witness ==
    /\ IsDone("index")
    /\ Len(recent_measurements) >= 2
    /\ is_none(recent_measurements[1].spo2_percent)
    /\ is_some(max_measurement[1].spo2_percent)
    /\ \A i \in 1..Len(recent_measurements) :
         \/ recent_measurements[i].systolic_mmhg # max_measurement[1].systolic_mmhg
         \/ recent_measurements[i].diastolic_mmhg # max_measurement[1].diastolic_mmhg

AggregateKeys ==
    { "avg_measurement", "quasi_q1_measurement", "quasi_q2_measurement",
      "quasi_q3_measurement" }

\* C8: the handlers compute the aggregates only over a non-empty sequence, and
\* the guard of get_index (a non-empty list of days) is true exactly then.
C8_GuardedAggregates ==
    pc = "done" =>
        /\ \A key \in AggregateKeys :
             is_some(context[1][key]) =>
                 /\ Len(recent_measurements) > 0
                 /\ "undefined" \notin DOMAIN context[1][key][1]
        /\ handler = "index" =>
             ((Len(days_and_measurements) > 0) <=> (Len(recent_measurements) > 0))

\* get_index has computed the aggregates over a single measurement, which
\* made the one day its guard looks at.
C8_Witness ==
    /\ IsDone("index")
    /\ Len(recent_measurements) = 1
    /\ Len(days_and_measurements) = 1
    /\ \A key \in AggregateKeys : is_some(context[1][key])

\* The three call sites: context key, numerator, denominator.
QuantileCalls ==
    { << "quasi_q1_measurement", 1, 4 >>, << "quasi_q2_measurement", 1, 2 >>,
      << "quasi_q3_measurement", 3, 4 >> }

\* The positions at which field f is present.
PresentAt(f) ==
    IF f \in optional_fields(handler)
    THEN { j \in 1..Len(recent_measurements) : is_some(recent_measurements[j][f]) }
    ELSE 1..Len(recent_measurements)

FieldAt(f, j) ==
    IF f \in optional_fields(handler)
    THEN recent_measurements[j][f][1] ELSE recent_measurements[j][f]

\* v stands at zero-based rank idx among the present values of f sorted ascending.
HasRank(v, f, idx) ==
    /\ \E j \in PresentAt(f) : FieldAt(f, j) = v
    /\ Cardinality({ j \in PresentAt(f) : value_lt(handler, FieldAt(f, j), v) }) <= idx
    /\ Cardinality({ j \in PresentAt(f) : ~ value_lt(handler, v, FieldAt(f, j)) }) > idx

RECURSIVE SumAt(_, _)
SumAt(f, S) ==
    IF S = { } THEN << 0, 1 >>
    ELSE LET j == CHOOSE x \in S : TRUE
         IN  r_add(value_ratio(handler, FieldAt(f, j)), SumAt(f, S \ { j }))

\* C10: the average in the context holds per field the exact quotient, in
\* lowest terms, of the sum of the present values by the number of measurements
\* that have the field; a measurement without the field counts for neither.
C10_Average ==
    (pc = "done" /\ is_some(context[1].avg_measurement)) =>
            LET a == context[1].avg_measurement[1]
            IN  /\ DOMAIN a = numeric_fields(handler)
                /\ \A f \in numeric_fields(handler) :
                     LET count == Cardinality(PresentAt(f))
                         v == IF f \in optional_fields(handler) THEN a[f][1] ELSE a[f]
                     IN  IF count = 0 THEN is_none(a[f])
                         ELSE /\ v[2] > 0
                              /\ Gcd(Abs(v[1]), v[2]) = 1
                              /\ v[1] * count * SumAt(f, PresentAt(f))[2] =
                                   SumAt(f, PresentAt(f))[1] * v[2]

\* Oxygen saturations 95, none, 99 average to 97 while the three systolic
\* values 110, 130, 130 average to 370/3.
C10_Witness ==
    /\ IsDone("index")
    /\ Len(recent_measurements) = 3
    /\ recent_measurements[1].spo2_percent = Some(95)
    /\ is_none(recent_measurements[2].spo2_percent)
    /\ recent_measurements[3].spo2_percent = Some(99)
    /\ is_some(context[1].avg_measurement)
    /\ context[1].avg_measurement[1].spo2_percent = Some(<< 97, 1 >>)
    /\ context[1].avg_measurement[1].systolic_mmhg = << 370, 3 >>

\* The rearrangements of the positions 1..n.
Rearrangements(n) ==
    { p \in [ 1..n -> 1..n ] : \A i, j \in 1..n : p[i] = p[j] => i = j }

Rearranged(measurements, p) == [ i \in 1..Len(measurements) |-> measurements[p[i]] ]

\* The numeric fields of a composite.
NumericPart(composite) == [ f \in numeric_fields(handler) |-> composite[f] ]

\* The running maximum and minimum after the loop has gone through measurements.
RECURSIVE MaxOver(_)
MaxOver(measurements) ==
    IF measurements = << >> THEN None
    ELSE fold_max(handler, MaxOver(SubSeq(measurements, 1, Len(measurements) - 1)),
                  measurements[Len(measurements)])

RECURSIVE MinOver(_)
MinOver(measurements) ==
    IF measurements = << >> THEN None
    ELSE fold_min(handler, MinOver(SubSeq(measurements, 1, Len(measurements) - 1)),
                  measurements[Len(measurements)])

\* C11: the numeric fields of the maximum, the minimum, the average and the
\* three quasi-quantiles in the context are the ones every other order of the
\* same measurements gives, whether the handler sorted them ascending or
\* descending.
C11_OrderIndependent ==
    (pc = "done" /\ is_some(context[1].avg_measurement)) =>
        \A p \in Rearrangements(Len(recent_measurements)) :
            LET other == Rearranged(recent_measurements, p)
            IN  /\ NumericPart(MaxOver(other)[1]) =
                     NumericPart(context[1].max_measurement[1][1])
                /\ NumericPart(MinOver(other)[1]) =
                     NumericPart(context[1].min_measurement[1][1])
                /\ avg_measurement(handler, other) = context[1].avg_measurement[1]
                /\ quasi_q1_measurement(handler, other) = context[1].quasi_q1_measurement[1]
                /\ quasi_q2_measurement(handler, other) = context[1].quasi_q2_measurement[1]
                /\ quasi_q3_measurement(handler, other) = context[1].quasi_q3_measurement[1]

\* Two masses listed newest first, the older one the greater: the maximum comes
\* from the second row and the minimum from the first.
C11_Witness ==
    /\ IsDone("mass")
    /\ Len(recent_measurements) = 2
    /\ r_lt(recent_measurements[1].mass_kg, recent_measurements[2].mass_kg)
    /\ context[1].max_measurement[1][1].mass_kg = recent_measurements[2].mass_kg
    /\ context[1].min_measurement[1][1].mass_kg = recent_measurements[1].mass_kg
    /\ is_some(context[1].quasi_q2_measurement)

\* C12: a second call of a list handler that reads the same measurements, and
\* for the index page the same hours, hands out the list of days and the context
\* of the first call: nothing the first call wrote reaches the second.
C12_Idempotent ==
    (/\ pc = "done"
     /\ is_some(previous)
     /\ previous[1].recent_measurements = recent_measurements
     /\ previous[1].hours = hours) =>
        /\ days_and_measurements = previous[1].days_and_measurements
        /\ context = previous[1].context

\* The index page served twice over two measurements that fill two days.
C12_Witness ==
    /\ IsDone("index")
    /\ is_some(previous)
    /\ previous[1].recent_measurements = recent_measurements
    /\ previous[1].hours = hours
    /\ Len(recent_measurements) = 2
    /\ Len(days_and_measurements) = 2
    /\ is_some(context[1].avg_measurement)

-----------------------------------------------------------------------------
(* Vocabulary of the properties of the write path. *)

\* The handler of kind h has called its get_*_measurement_from_form.
HasBuilt(h) == handler = h /\ is_some(new_measurement)

\* The request was answered 400 and nothing was handed to the database.
Refused ==
    /\ pc = "post_done"
    /\ is_some(response)
    /\ response[1].status = 400
    /\ inserted = << >>

\* C13: the sugar form is accepted only under the unit keys mmol-per-l and
\* mg-per-dl. Without the key the result is MissingValue(sugar_unit_key), under
\* any other key ValueIsInvalidOption with the key's name, the offending value and
\* the two valid keys, whatever sugar_value holds; either way the request is
\* refused and no measurement exists.
C13_UnitKey ==
    HasBuilt("sugar") =>
        LET result == new_measurement[1]
        IN  IF "sugar_unit_key" \notin DOMAIN req_kv
            THEN /\ result = Rejected(MissingValue("sugar_unit_key"))
                 /\ Refused
            ELSE IF req_kv["sugar_unit_key"] \notin { MMOL_PER_L, MG_PER_DL }
            THEN /\ result = Rejected(ValueIsInvalidOption(
                                "sugar_unit_key", req_kv["sugar_unit_key"],
                                << MMOL_PER_L, MG_PER_DL >>))
                 /\ Refused
            ELSE result.kind = "Err" => result.error.key = "sugar_value"

\* The key mg-per-l with a sugar_value that is no number: the unit key is what
\* the error names.
C13_Witness ==
    /\ HasBuilt("sugar")
    /\ DOMAIN req_kv = { "sugar_unit_key", "sugar_value" }
    /\ req_kv["sugar_unit_key"] = Text(<< "m", "g", "-", "p", "e", "r", "-", "l" >>)
    /\ req_kv["sugar_value"] = Text(<< "9", "0", "x" >>)
    /\ new_measurement[1].kind = "Err"
    /\ new_measurement[1].error.kind = "ValueIsInvalidOption"
    /\ Refused

\* The product of two fractions in lowest terms, when its numerator and its
\* denominator are i32 values; None when the product is no Rational32.
ExactProduct(a, b) ==
    LET g1 == Gcd(Abs(a[1]), b[2])
        g2 == Gcd(a[2], Abs(b[1]))
    IN  IF mul_fits(a[1] \div g1, b[1] \div g2) /\ mul_fits(a[2] \div g2, b[2] \div g1)
        THEN Some(<< (a[1] \div g1) * (b[1] \div g2), (a[2] \div g2) * (b[2] \div g1) >>)
        ELSE None

\* The quotient of a by b # 0 likewise.
ExactQuotient(a, b) ==
    ExactProduct(a, IF b[1] < 0 THEN << -b[2], -b[1] >> ELSE << b[2], b[1] >>)

\* The step in which the handler calls get_*_measurement_from_form.
IsBuildStep == pc = "post_form" /\ new_measurement' # new_measurement

\* The value the form holds under a key that parses as a decimal.
FormValue(key) == r32_from_decimal(req_kv[key]).value

HasValue(key) == key \in DOMAIN req_kv /\ r32_from_decimal(req_kv[key]).ok

\* C14: whenever a sugar measurement is built, its concentration is the
\* submitted value itself under mmol-per-l and the eighteenth part of it, in
\* lowest terms, under mg-per-dl.
C14_ExactConversion ==
    (HasBuilt("sugar") /\ new_measurement[1].kind = "Ok") =>
        LET v == FormValue("sugar_value")
            stored == new_measurement[1].measurement.sugar_mmol_per_l
        IN  IF req_kv["sugar_unit_key"] = MMOL_PER_L THEN stored = v
            ELSE /\ is_some(ExactProduct(v, << 1, 18 >>))
                 /\ stored = ExactProduct(v, << 1, 18 >>)[1]

\* The arithmetic of the mass form leaves the i32 or divides by zero.
MassArithmeticFails(mass_kg, config) ==
    /\ is_some(config.height_cm)
    /\ LET h == r_new(config.height_cm[1], 100)
           sq == ExactProduct(h, h)
       IN  \/ is_none(sq)
           \/ sq[1][1] = 0
           \/ is_none(ExactQuotient(mass_kg, sq[1]))

\* C15 (as the specification states it): a mass measurement has a BMI exactly
\* when a height is configured while it is built, and that BMI is
\* mass_kg / (height_cm / 100)^2 as an exact fraction, the value the read path
\* computes for the same mass and height.
C15_Step ==
    (IsBuildStep /\ handler = "mass" /\ new_measurement'[1].kind = "Ok") =>
        LET built == new_measurement'[1].measurement
        IN  /\ is_some(built.bmi) <=> is_some(CONFIG.height_cm)
            /\ is_some(built.bmi) =>
                 /\ ~MassArithmeticFails(built.mass_kg, CONFIG)
                 /\ built.bmi = fetch_measurements("mass", << built >>, CONFIG)[1].bmi
                 /\ LET h == r_new(CONFIG.height_cm[1], 100)
                    IN  built.bmi[1] =
                          ExactQuotient(built.mass_kg, ExactProduct(h, h)[1])[1]

C15_ExactBmi == [][C15_Step]_vars

\* C16 (as the specification states it): when a product or a quotient of the
\* write path leaves the 32-bit range, or the divisor is zero, the form function
\* returns an error value and the request is answered 400 like any other
\* rejected form.
C16_Step ==
    (/\ IsBuildStep
     /\ \/ /\ handler = "mass"
           /\ HasValue("mass_kg")
           /\ ~r_lt(FormValue("mass_kg"), << 0, 1 >>)
           /\ MassArithmeticFails(FormValue("mass_kg"), CONFIG)
        \/ /\ handler = "sugar"
           /\ "sugar_unit_key" \in DOMAIN req_kv
           /\ req_kv["sugar_unit_key"] = MG_PER_DL
           /\ HasValue("sugar_value")
           /\ ~r_lt(FormValue("sugar_value"), << 0, 1 >>)
           /\ is_none(ExactProduct(FormValue("sugar_value"), << 1, 18 >>))) =>
        /\ new_measurement'[1].kind = "Err"
        /\ response' = Some(respond_400(new_measurement'[1].error))

C16_CheckedArithmetic == [][C16_Step]_vars

\* The numeric fields a form function reads, with the type each is parsed as.
FieldTypes(h) ==
    CASE h = "index" ->
           [ systolic_mmhg |-> "i32", diastolic_mmhg |-> "i32", pulse_bpm |-> "i32",
             spo2_percent |-> "i32" ]
      [] h = "mass"        -> [ mass_kg |-> "r32" ]
      [] h = "temperature" -> [ location |-> "i64", temperature_celsius |-> "r32" ]
      [] h = "sugar"       -> [ sugar_value |-> "r32" ]

\* The fields a form has to hold.
RequiredKeys(h) ==
    CASE h = "index"       -> { "systolic_mmhg", "diastolic_mmhg", "pulse_bpm" }
      [] h = "mass"        -> { "mass_kg" }
      [] h = "temperature" -> { "location", "temperature_celsius" }
      [] h = "sugar"       -> { "sugar_unit_key", "sugar_value" }

\* The text is a number of the type.
Parses(type, text) ==
    CASE type = "i32" -> parse_i32(text).ok
      [] type = "i64" -> parse_i64(text).ok
      [] type = "r32" -> r32_from_decimal(text).ok

\* The numeric fields of the form that hold no number.
Unparsable ==
    { k \in DOMAIN req_kv \cap DOMAIN FieldTypes(handler) :
        ~Parses(FieldTypes(handler)[k], req_kv[k]) }

\* C17: a form with a numeric field that does not parse, or without a required
\* field, builds no measurement: the request is answered 400 and nothing is
\* inserted. A parse error names a field of the form that does not parse, with
\* the text submitted for it and the variant of its type; MissingValue names a
\* required field the form does not hold.
C17_ParseErrors ==
    (handler \in Handlers /\ is_some(new_measurement)) =>
        LET result == new_measurement[1]
        IN  /\ (Unparsable # { } \/ RequiredKeys(handler) \ DOMAIN req_kv # { }) =>
                 result.kind = "Err"
            /\ result.kind = "Err" =>
                 /\ Refused
                 /\ result.error.kind = "MissingValue" =>
                      result.error.key \in RequiredKeys(handler) \ DOMAIN req_kv
                 /\ result.error.kind = "FailedToParseIntValue" =>
                      /\ result.error.key \in Unparsable
                      /\ FieldTypes(handler)[result.error.key] \in { "i32", "i64" }
                      /\ result.error.value = req_kv[result.error.key]
                 /\ result.error.kind = "FailedToParseRationalValue" =>
                      /\ result.error.key \in Unparsable
                      /\ FieldTypes(handler)[result.error.key] = "r32"
                      /\ result.error.value = req_kv[result.error.key]

\* A systolic pressure of 12x beside a diastolic pressure and a pulse that are
\* numbers: the error carries the key and the text, and the answer is 400.
C17_Witness ==
    /\ HasBuilt("index")
    /\ { "systolic_mmhg", "diastolic_mmhg", "pulse_bpm" } \subseteq DOMAIN req_kv
    /\ Unparsable = { "systolic_mmhg" }
    /\ new_measurement[1] =
         Rejected(FailedToParseIntValue("systolic_mmhg", Text(<< "1", "2", "x" >>),
                                        "InvalidDigit"))
    /\ Refused

\* The number a field of the form holds.
IntValue(key) == parse_i32(req_kv[key]).value

\* The three required fields of the blood pressure form hold numbers from 0 on.
PressureFieldsGood ==
    \A k \in { "systolic_mmhg", "diastolic_mmhg", "pulse_bpm" } :
        k \in DOMAIN req_kv /\ parse_i32(req_kv[k]).ok /\ IntValue(k) >= 0

Reduced(r) == r[2] > 0 /\ Gcd(Abs(r[1]), r[2]) = 1

\* C19: every Rational32 of the write path that comes into being is in lowest
\* terms over a positive denominator: the values parsed from the form, the
\* conversion factor and the converted concentration, the height in metres, its
\* square and the BMI, in either build.
C19_LowestTerms ==
    /\ \A k \in DOMAIN req_kv \cap { "mass_kg", "temperature_celsius", "sugar_value" } :
          get_form_r32(req_kv, k).ok => Reduced(get_form_r32(req_kv, k).value[1])
    /\ is_some(height_m(CONFIG)) =>
          /\ Reduced(height_m(CONFIG)[1])
          /\ square_height_m2(CONFIG, overflow_checks)[1].ok =>
               Reduced(square_height_m2(CONFIG, overflow_checks)[1].value[1])
    /\ \A unit_key \in { MMOL_PER_L, MG_PER_DL } :
          Reduced(factor_to_mmol_per_l(unit_key)[1])
    /\ (is_some(new_measurement) /\ new_measurement[1].kind = "Ok") =>
          LET built == new_measurement[1].measurement
          IN  /\ handler = "mass" =>
                   /\ Reduced(built.mass_kg)
                   /\ is_some(built.bmi) => Reduced(built.bmi[1])
              /\ handler = "temperature" => Reduced(built.temperature_celsius)
              /\ handler = "sugar" => Reduced(built.sugar_mmol_per_l)

\* 75.5 kg at 180 cm: the mass is 151/2, the height 9/5, its square 81/25 and
\* the BMI 3775/162.
C19_Witness ==
    /\ HasBuilt("mass")
    /\ new_measurement[1].kind = "Ok"
    /\ new_measurement[1].measurement.mass_kg = << 151, 2 >>
    /\ new_measurement[1].measurement.bmi = Some(<< 3775, 162 >>)
    /\ CONFIG.height_cm = Some(180)
    /\ height_m(CONFIG) = Some(<< 9, 5 >>)
    /\ square_height_m2(CONFIG, overflow_checks) = Some(Returned(<< 81, 25 >>))

\* The text behind its sign, if it has one.
Unsigned(text) == IF text # << >> /\ is_sign(text[1]) THEN Tail(text) ELSE text

Points(text) == { i \in DOMAIN Unsigned(text) : is_point(Unsigned(text)[i]) }

\* An optional sign, then digits with at most one decimal point among them.
InGrammar(text) ==
    /\ text # << >>
    /\ \A i \in DOMAIN Unsigned(text) :
          is_digit(Unsigned(text)[i]) \/ is_point(Unsigned(text)[i])
    /\ \E i \in DOMAIN Unsigned(text) : is_digit(Unsigned(text)[i])
    /\ Cardinality(Points(text)) <= 1

\* The number of digits behind the decimal point.
FractionalDigits(text) ==
    IF Points(text) = { } THEN 0
    ELSE Len(Unsigned(text)) - (CHOOSE i \in Points(text) : TRUE)

\* Ten to the number of fractional digits is an i32: 10^9 is one, 10^10 is not.
ScaleFits(text) == FractionalDigits(text) <= 9

RECURSIVE PowerOfTen(_)
PowerOfTen(k) == IF k = 0 THEN 1 ELSE 10 * PowerOfTen(k - 1)

\* The digits read as one natural number.
RECURSIVE DigitsValue(_)
DigitsValue(digits) ==
    IF digits = << >> THEN 0
    ELSE 10 * DigitsValue(SubSeq(digits, 1, Len(digits) - 1)) + (digits[Len(digits)] - 48)

\* The digits of the text, read as one number, are an i32.
NumeratorFits(text) == from_str_digits(SelectSeq(Unsigned(text), is_digit), TRUE, 0).ok

\* The fraction is the number the text writes down.
IsValueOf(r, text) ==
    LET scale == PowerOfTen(FractionalDigits(text))
        digits == DigitsValue(SelectSeq(Unsigned(text), is_digit))
    IN  /\ scale % r[2] = 0
        /\ r[1] * (scale \div r[2]) = IF text[1] = 45 THEN -digits ELSE digits

\* C20: a decimal field of the form that follows the grammar, with a scale and
\* digits that fit an i32, is read as exactly the number it writes down, in
\* lowest terms; an empty text, a second decimal point, any other character and
\* a scale beyond the i32 are refused with FailedToParseRationalValue carrying
\* the key and the text.
C20_DecimalParse ==
    \A k \in DOMAIN req_kv \cap { "mass_kg", "temperature_celsius", "sugar_value" } :
        LET text == req_kv[k]
            found == get_form_r32(req_kv, k)
        IN  IF ~InGrammar(text) \/ ~ScaleFits(text)
            THEN found = Err(FailedToParseRationalValue(k, text, "MalformedDecimal"))
            ELSE NumeratorFits(text) =>
                   /\ found.ok
                   /\ is_some(found.value)
                   /\ Reduced(found.value[1])
                   /\ IsValueOf(found.value[1], text)

\* The mass 12.34 is built as 617/50.
C20_Witness ==
    /\ HasBuilt("mass")
    /\ "mass_kg" \in DOMAIN req_kv
    /\ req_kv["mass_kg"] = Text(<< "1", "2", ".", "3", "4" >>)
    /\ new_measurement[1].kind = "Ok"
    /\ new_measurement[1].measurement.mass_kg = << 617, 50 >>

\* C21: under hours whose morning starts at 0 every measurement the pass has
\* placed lies in the bucket of its own calendar date and of no other, and an
\* evening slot is only ever held by a measurement taken at or after evening_start.
C21_MidnightMorning ==
    (InPass /\ hours[1].morning_start = 0) =>
        /\ \A m \in Processed : KeysOf(m) = { format_date(m.timestamp.date) }
        /\ \A k \in DOMAIN day_to_measurements :
             LET e == day_to_measurements[k]
             IN  is_some(e.evening) =>
                   /\ e.evening[1].timestamp.hour >= hours[1].evening_start
                   /\ format_date(e.evening[1].timestamp.date) = k

\* With the morning starting at 0, a reading at 03:00 is in its own date's
\* bucket and a reading at 20:00 has the evening slot.
C21_Witness ==
    /\ InPass
    /\ hours[1].morning_start = 0
    /\ \E m1, m2 \in Processed :
         /\ m1.timestamp.hour = 3
         /\ format_date(m1.timestamp.date) \in KeysOf(m1)
         /\ m2.timestamp.hour = 20
         /\ day_to_measurements[format_date(m2.timestamp.date)].evening = Some(m2)

\* The request has been answered with this status.
Answered(status) == pc = "post_done" /\ is_some(response) /\ response[1].status = status

\* The form was validated into a measurement.
Validated == is_some(new_measurement) /\ new_measurement[1].kind = "Ok"

\* What holds of C22 in every state: at most one insert, only with a write
\* token and a validated measurement with id -1 and followed by 302; 403 with
\* its header for a read-only token and 400 for a rejected form, both without
\* an insert; and no step after the answer.
InsertGuarded ==
    /\ Len(inserted) <= 1
    /\ inserted # << >> =>
         /\ token.write
         /\ Validated
         /\ inserted[1] = new_measurement[1].measurement
         /\ inserted[1].id = -1
         /\ Answered(302)
    /\ (pc = "post_done" /\ ~token.write) =>
         /\ Answered(403)
         /\ "Forbidden-Reason" \in DOMAIN response[1].headers
         /\ response[1].headers["Forbidden-Reason"] = "token-read-only"
         /\ inserted = << >>
    /\ (is_some(new_measurement) /\ new_measurement[1].kind = "Err") =>
         /\ inserted = << >>
         /\ pc = "post_done" => Answered(400)
    /\ Answered(302) => inserted # << >>
    /\ pc = "post_done" => ~ ENABLED NextPost

\* The insert was tried and failed: the form was validated, the request is
\* answered and nothing is stored.
InsertFailed == pc = "post_done" /\ Validated /\ inserted = << >>

\* C22: a POST handler inserts at most once, and only with a write token and a
\* form validated into a measurement with id -1; a read-only token is answered
\* 403 with Forbidden-Reason: token-read-only, a validation error 400, an insert
\* error 500, none of them with an insert, and 302 follows a successful insert
\* only; no answered request is taken up again.
C22_InsertOnce ==
    /\ InsertGuarded
    /\ InsertFailed => Answered(500)

\* The values the query string of a request gives its token parameter.
TokenParams(req) ==
    IF is_none(req.query) THEN { }
    ELSE { req.query[1][i][2] : i \in { n \in DOMAIN req.query[1] : req.query[1][n][1] = "token" } }

\* The token texts a configuration knows.
ConfiguredTokens(config) ==
    { config.auth_tokens[i].token : i \in DOMAIN config.auth_tokens }

\* A handler of measurements has been entered.
HandlerEntered == handler # "none"

\* The database has been read or written.
DatabaseTouched == recent_measurements # << >> \/ inserted # << >>

\* The step in which handle_request looks at the token of a request for
\* something other than a static file.
IsTokenCheck ==
    /\ pc = "request"
    /\ pc' # "request"
    /\ is_none(STATIC_PATH_RE_captures(request[1].path))

C23_Step ==
    /\ IsTokenCheck =>
         /\ pc' = "authenticated" => TokenParams(request[1]) \cap ConfiguredTokens(CONFIG) # { }
         /\ TokenParams(request[1]) \cap ConfiguredTokens(CONFIG) = { } =>
              /\ pc' = "answered"
              /\ response'[1].status = 403
              /\ handler' = "none"
    /\ (handler' # handler \/ recent_measurements' # recent_measurements
           \/ inserted' # inserted) =>
         pc \notin { "request", "answered" }

C23_State ==
    /\ (HandlerEntered \/ DatabaseTouched \/ pc = "authenticated") =>
         token.token \in TokenParams(request[1])
    /\ (pc = "answered" /\ response[1].status \in { 404, 405 }) =>
         \/ is_some(STATIC_PATH_RE_captures(request[1].path))
         \/ token.token \in TokenParams(request[1])

\* C23: handle_request enters a measurement handler, and so reads or writes the
\* database, only for a request whose query string has a token parameter equal
\* to a configured token; a request for anything but a static file that has no
\* query string, no token parameter or an unknown token is answered 403 in the
\* step that looks at the token, before path and method are looked at, so it is
\* never answered 404 or 405.
C23_TokenFirst == [](C23_State) /\ [][C23_Step]_vars

\* A POST with the writer's token went through the token check and the route
\* to post_index and has stored its measurement.
C23_Witness ==
    /\ inserted # << >>
    /\ handler = "index"
    /\ request[1].query = Some(<< << "token", "writer" >> >>)
    /\ request[1].method = "POST"
    /\ token = [ token |-> "writer", write |-> TRUE ]

\* How often a measurement occurs in a bucket: in its slots and its overflow list.
Occurrences(e, m) ==
    Cardinality({ s \in { "morning", "midday", "evening" } : e[s] = Some(m) })
      + Cardinality({ i \in DOMAIN e.other : e.other[i] = m })

\* The measurements of a bucket.
Members(e) ==
    { e[s][1] : s \in { s \in { "morning", "midday", "evening" } : is_some(e[s]) } }
      \cup OtherSet(e)

\* The measurements the buckets of a set of keys hold, counted with repetition.
RECURSIVE HeldIn(_)
HeldIn(keys) ==
    IF keys = { } THEN 0
    ELSE LET k == CHOOSE k \in keys : TRUE
         IN  BucketSize(day_to_measurements[k]) + HeldIn(keys \ { k })

\* C24: at every point of the bucketing pass each processed measurement occurs
\* exactly once, in one slot or in the overflow list of one bucket; the buckets
\* hold as many measurements as were processed, and none that was not.
C24_Conservation ==
    InPass =>
        /\ \A m \in Processed :
             /\ Cardinality(KeysOf(m)) = 1
             /\ \A k \in KeysOf(m) : Occurrences(day_to_measurements[k], m) = 1
        /\ HeldIn(DOMAIN day_to_measurements) = next_index - 1
        /\ \A k \in DOMAIN day_to_measurements :
             Members(day_to_measurements[k]) \subseteq Processed

\* Two of three measurements are processed, both of the same window of one day:
\* the first has the morning slot, the second is in the overflow list.
C24_Witness ==
    /\ InPass
    /\ pc = "loop"
    /\ next_index = 3
    /\ Len(recent_measurements) = 3
    /\ \E k \in DOMAIN day_to_measurements :
         /\ day_to_measurements[k].morning = Some(recent_measurements[1])
         /\ day_to_measurements[k].other = << recent_measurements[2] >>

\* The calendar date of measurement m lies `later` days after the date of key k.
DaysAfterKey(m, k) == DayNumber(m.timestamp.date) - DayNumber(KeyDate(k))

\* C25: in the bucket of date D a filled morning slot holds a measurement of
\* date D taken inside the morning window; a filled evening slot holds one of
\* date D taken at or after evening_start and morning_start, or one of date D+1
\* taken before morning_start; and, when morning_start <= midday_start, a filled
\* midday slot holds one of date D taken inside the midday window.
C25_SlotProvenance ==
    InPass =>
        \A k \in DOMAIN day_to_measurements :
            LET e == day_to_measurements[k]
                h == hours[1]
            IN  /\ is_some(e.morning) =>
                     /\ DaysAfterKey(e.morning[1], k) = 0
                     /\ h.morning_start <= e.morning[1].timestamp.hour
                     /\ e.morning[1].timestamp.hour < h.morning_end
                /\ is_some(e.evening) =>
                     \/ /\ DaysAfterKey(e.evening[1], k) = 0
                        /\ e.evening[1].timestamp.hour >= h.evening_start
                        /\ e.evening[1].timestamp.hour >= h.morning_start
                     \/ /\ DaysAfterKey(e.evening[1], k) = 1
                        /\ e.evening[1].timestamp.hour < h.morning_start
                /\ (is_some(e.midday) /\ h.morning_start <= h.midday_start) =>
                     /\ DaysAfterKey(e.midday[1], k) = 0
                     /\ h.midday_start <= e.midday[1].timestamp.hour
                     /\ e.midday[1].timestamp.hour < h.midday_end

\* The bucket of 2023-12-31 with all three slots filled: 07:00 and 12:00 of that
\* day, and in the evening slot 03:00 of 2024-01-01.
C25_Witness ==
    /\ InPass
    /\ format_date([ y |-> 2023, m |-> 12, d |-> 31 ]) \in DOMAIN day_to_measurements
    /\ LET e == day_to_measurements[format_date([ y |-> 2023, m |-> 12, d |-> 31 ])]
       IN  /\ is_some(e.morning) /\ is_some(e.midday) /\ is_some(e.evening)
           /\ e.morning[1].timestamp.hour = 7
           /\ e.midday[1].timestamp.hour = 12
           /\ e.evening[1].timestamp =
                [ date |-> [ y |-> 2024, m |-> 1, d |-> 1 ], hour |-> 3 ]

\* The fields the forms read through get_form_i32_gt0 and get_form_r32_gt0.
PositiveIntKeys == { "systolic_mmhg", "diastolic_mmhg", "pulse_bpm", "spo2_percent" }

PositiveRationalKeys == { "mass_kg", "sugar_value" }

\* C26: a present value that is zero or less is refused by get_form_i32_gt0 with
\* IntValueZeroOrLess and by get_form_r32_gt0 with RationalValueZeroOrLess, each
\* carrying the key and the value; what the helpers accept is greater than
\* zero, and so is every such field of a measurement that is built.
C26_StrictlyPositive ==
    is_some(new_measurement) =>
        /\ \A k \in DOMAIN req_kv \cap PositiveIntKeys :
             parse_i32(req_kv[k]).ok =>
               IF IntValue(k) <= 0
               THEN get_form_i32_gt0(req_kv, k) = Err(IntValueZeroOrLess(k, IntValue(k)))
               ELSE get_form_i32_gt0(req_kv, k) = Ok(Some(IntValue(k)))
        /\ \A k \in DOMAIN req_kv \cap PositiveRationalKeys :
             HasValue(k) =>
               IF ~r_lt(<< 0, 1 >>, FormValue(k))
               THEN get_form_r32_gt0(req_kv, k) =
                      Err(RationalValueZeroOrLess(k, FormValue(k)))
               ELSE get_form_r32_gt0(req_kv, k) = Ok(Some(FormValue(k)))
        /\ new_measurement[1].kind = "Ok" =>
              /\ \A k \in DOMAIN req_kv \cap PositiveIntKeys : IntValue(k) > 0
              /\ \A k \in DOMAIN req_kv \cap PositiveRationalKeys :
                    r_lt(<< 0, 1 >>, FormValue(k))

\* C26 for the values below zero only.
NegativeRefused ==
    /\ \A k \in DOMAIN req_kv \cap PositiveIntKeys :
         (parse_i32(req_kv[k]).ok /\ IntValue(k) < 0) =>
           get_form_i32_gt0(req_kv, k) = Err(IntValueZeroOrLess(k, IntValue(k)))
    /\ \A k \in DOMAIN req_kv \cap PositiveRationalKeys :
         (HasValue(k) /\ r_lt(FormValue(k), << 0, 1 >>)) =>
           get_form_r32_gt0(req_kv, k) = Err(RationalValueZeroOrLess(k, FormValue(k)))

\* The handler stores its value through a quotient of two numerics.
StoresQuotient == handler \in { "mass", "temperature" }

\* The value of a mass or temperature measurement.
ValueOf(measurement) ==
    IF handler = "mass" THEN measurement.mass_kg ELSE measurement.temperature_celsius

\* C27: every mass and every temperature that passes the validation of the form
\* can be written by add_mass_measurement / add_temperature_measurement, and
\* what get_recent_*_measurements and the decimal parser read back is the
\* rational that was written.
C27_RoundTrip ==
    StoresQuotient =>
        /\ Validated => add_measurement(handler, new_measurement[1].measurement).ok
        /\ pc # "read_panicked"
        /\ pc = "read_back" =>
             ValueOf(recent_measurements[1]) = ValueOf(inserted[1])

====
